---- MODULE Spec2Model ----
(***************************************************************************)
(* Parameter staging engine (EffectParam), the scalar adapters and the FFT  *)
(* adapter (EffectParamCustomFFT) of obs-shaderfilter-plus,                *)
(* src/src/effect/effect_param.rs, and the Mel filter bank with its        *)
(* helpers, src/src/mel/filter_bank.rs and src/src/mel/utils.rs, computed  *)
(* in f32 arithmetic, and the reload button's flag (ReloadButtonState),    *)
(* src/src/ui/properties.rs.                                               *)
(*                                                                         *)
(* Option<T> is a sequence of length at most one: None is <<>>, Some(x) is *)
(* <<x>>.  A GPU resource is a record with its identity, the prepared      *)
(* value it was converted from and an "enabled" flag; the slots of an      *)
(* EffectParam hold resources in their disabled form.  The ledger is the   *)
(* bookkeeping of the graphics side: which resources were created, from    *)
(* which prepared value, and which were released in which state.           *)
(***************************************************************************)
EXTENDS Integers, Sequences, FiniteSets, TLC

\* Bounds of the model.
MaxValues == 4         \* prepared values handed to the EffectParams of one run
MaxResources == 4      \* GPU resources created in one run
MaxSpectrumLen == 2    \* length of the linear magnitude spectrum of a result

None == <<>>
Some(x) == <<x>>

\* ---------------------------------------------------------------- values

\* The bit pattern of the f32 values the spectra are made of: 0.0 and 1.0.
F32_ZERO == 0
F32_ONE == 1065353216

\* The bytes of one f32 in memory order (little endian), as
\* slice::from_raw_parts::<u8> reads them.
F32Bytes(bits) ==
    << bits % 256, (bits \div 256) % 256, (bits \div 65536) % 256, (bits \div 16777216) % 256 >>

\* from_raw_parts(ptr as *const u8, len * size_of::<f32>()).iter().copied().collect()
RECURSIVE RawBytes(_)
RawBytes(floats) ==
    IF floats = <<>> THEN <<>>
    ELSE F32Bytes(Head(floats)) \o RawBytes(Tail(floats))

\* impl Default for TextureDescriptor
TextureDescriptorDefault ==
    [ dimensions   |-> <<1, 1>>,
      color_format |-> "RGBA",
      levels       |-> << <<0, 0, 0, 0>> >>,
      flags        |-> 0 ]

\* A spectrum texture whose level holds one byte for each sample.
SpectrumTexture_unpacked(spectrum) ==
    [ dimensions   |-> << Len(spectrum), 1 >>,
      color_format |-> "R32F",
      levels       |-> << [ i \in 1..Len(spectrum) |-> spectrum[i] % 256 ] >>,
      flags        |-> 0 ]

\* The TextureDescriptor prepare_values builds from one spectrum (the Mel and
\* the linear branch build it the same way, from different data).
SpectrumTexture(spectrum) ==
    [ dimensions   |-> <<Len(spectrum), 1>>,
      color_format |-> "R32F",
      levels       |-> << RawBytes(spectrum) >>,
      flags        |-> 0 ]

\* A prepared value: the payload and, as bookkeeping, the number of the
\* hand-over that produced it.
PreparedValue(n, payload) == [ id |-> n, data |-> payload ]

\* ---------------------------------------------------------------- ledger

LedgerInit ==
    [ values    |-> 0,      \* prepared values handed over so far: ids 1..values
      resources |-> <<>>,   \* resources[i]: the id of the value resource i was converted from
      drops     |-> <<>>,   \* releases, in order: what, which, and whether it was enabled
      discarded |-> {} ]    \* ids of the values dropped without having been converted

\* ContextDependent::enable: the disabled resource becomes an enabled one.
Enable(x) == [x EXCEPT !.enabled = TRUE]

\* The end of a staged resource's scope: it is released in the state it is in.
DropResource(x, L) ==
    [L EXCEPT !.drops = Append(@, [kind |-> "resource", param |-> "", id |-> x.id,
                                   enabled |-> x.enabled])]

\* The end of a parameter handle's scope.
DropParam(p, L) ==
    [L EXCEPT !.drops = Append(@, [kind |-> "param", param |-> p.id, id |-> 0,
                                   enabled |-> p.enabled])]

\* Dropping an Option<PreparedValue> that is overwritten or goes out of scope.
Discard(prepared, L) ==
    IF prepared = None THEN L
    ELSE [L EXCEPT !.discarded = @ \cup {prepared[1].id}]

\* ----------------------------------------------------------- EffectParam

\* EffectParamType::convert_and_stage_value: a new resource made from the
\* prepared value against the live context, returned disabled.
convert_and_stage_value(prepared, L) ==
    [ resource |-> [ id      |-> Len(L.resources) + 1,
                     from    |-> prepared.id,
                     data    |-> prepared.data,
                     enabled |-> FALSE ],
      ledger   |-> [L EXCEPT !.resources = Append(@, prepared.id)] ]

\* An EffectParam::new that leaves no value pending.
EffectParam_new_empty(param, L) ==
    [ ep     |-> [ param          |-> [ id |-> param, enabled |-> FALSE, value |-> None ],
                   prepared_value |-> None,
                   staged_value   |-> None ],
      ledger |-> L ]

\* EffectParam::new
EffectParam_new(param, L) ==
    [ ep     |-> [ param          |-> [ id |-> param, enabled |-> FALSE, value |-> None ],
                   prepared_value |-> Some(PreparedValue(L.values + 1, TextureDescriptorDefault)),
                   staged_value   |-> None ],
      ledger |-> [L EXCEPT !.values = @ + 1] ]

\* A prepare_value that also invalidates the staged value.
prepare_value_clearing(ep, new_value, L) ==
    [ ep     |-> [ep EXCEPT !.prepared_value = Some(new_value), !.staged_value = None],
      ledger |-> Discard(ep.prepared_value, L) ]

\* A prepare_value that keeps a value that is already pending.
prepare_value_first_wins(ep, new_value, L) ==
    IF ep.prepared_value # None
    THEN [ ep |-> ep, ledger |-> Discard(Some(new_value), L) ]
    ELSE [ ep |-> [ep EXCEPT !.prepared_value = Some(new_value)], ledger |-> L ]

\* EffectParam::prepare_value
prepare_value(ep, new_value, L) ==
    [ ep     |-> [ep EXCEPT !.prepared_value = Some(new_value)],
      ledger |-> Discard(ep.prepared_value, L) ]

\* A stage_value that reads the prepared value without taking it.
stage_value_keeping(ep, L) ==
    IF ep.prepared_value # None
    THEN LET conv == convert_and_stage_value(ep.prepared_value[1], L)
             previous == ep.staged_value
         IN  [ ep     |-> [ep EXCEPT !.staged_value = Some(conv.resource)],
               ledger |-> IF previous # None
                          THEN DropResource(Enable(previous[1]), conv.ledger)
                          ELSE conv.ledger ]
    ELSE [ ep |-> ep, ledger |-> L ]

\* A stage_value that lets the replaced resource go out of scope disabled.
stage_value_no_enable(ep, L) ==
    IF ep.prepared_value # None
    THEN LET conv == convert_and_stage_value(ep.prepared_value[1], L)
             previous == ep.staged_value
         IN  [ ep     |-> [ep EXCEPT !.prepared_value = None,
                                     !.staged_value = Some(conv.resource)],
               ledger |-> IF previous # None
                          THEN DropResource(previous[1], conv.ledger)
                          ELSE conv.ledger ]
    ELSE [ ep |-> ep, ledger |-> L ]

\* EffectParam::stage_value
stage_value(ep, L) ==
    IF ep.prepared_value # None
    THEN LET conv == convert_and_stage_value(ep.prepared_value[1], L)
             previous == ep.staged_value
         IN  [ ep     |-> [ep EXCEPT !.prepared_value = None,
                                     !.staged_value = Some(conv.resource)],
               ledger |-> IF previous # None
                          THEN DropResource(Enable(previous[1]), conv.ledger)
                          ELSE conv.ledger ]
    ELSE [ ep |-> ep, ledger |-> L ]

\* A stage_value_custom that takes the pending prepared value as stage_value does.
stage_value_custom_consuming(ep, value, L) ==
    LET previous == ep.staged_value
    IN  [ ep     |-> [ep EXCEPT !.prepared_value = None, !.staged_value = Some(value)],
          ledger |-> IF previous # None
                     THEN DropResource(Enable(previous[1]), Discard(ep.prepared_value, L))
                     ELSE Discard(ep.prepared_value, L) ]

\* EffectParam::stage_value_custom
stage_value_custom(ep, value, L) ==
    LET previous == ep.staged_value
    IN  [ ep     |-> [ep EXCEPT !.staged_value = Some(value)],
          ledger |-> IF previous # None
                     THEN DropResource(Enable(previous[1]), L)
                     ELSE L ]

\* A take_staged_value that returns the staged resource and keeps it staged.
take_staged_value_keeping(ep) ==
    [ ep |-> ep, taken |-> ep.staged_value ]

\* EffectParam::take_staged_value
take_staged_value(ep) ==
    [ ep |-> [ep EXCEPT !.staged_value = None], taken |-> ep.staged_value ]

\* An assign_value that binds a null resource instead of failing.
assign_value_lenient(ep) ==
    IF ep.staged_value = None
    THEN [ ep |-> [ep EXCEPT !.param.value = Some(0)], panic |-> FALSE, writes |-> <<>> ]
    ELSE [ ep     |-> [ep EXCEPT !.param.value = Some(ep.staged_value[1].id)],
           panic  |-> FALSE,
           writes |-> << [param |-> ep.param.id, resource |-> ep.staged_value[1].id] >> ]

\* An assign_value that hands the staged resource over to the parameter.
assign_value_moving(ep) ==
    IF ep.staged_value = None
    THEN [ ep |-> ep, panic |-> TRUE, writes |-> <<>> ]
    ELSE [ ep     |-> [ep EXCEPT !.param.value = Some(ep.staged_value[1].id),
                                 !.staged_value = None],
           panic  |-> FALSE,
           writes |-> << [param |-> ep.param.id, resource |-> ep.staged_value[1].id] >> ]

\* EffectParam::assign_value: expect() fails on an empty staged slot before
\* anything is written; otherwise set_param_value writes the staged resource.
assign_value(ep) ==
    IF ep.staged_value = None
    THEN [ ep |-> ep, panic |-> TRUE, writes |-> <<>> ]
    ELSE [ ep     |-> [ep EXCEPT !.param.value = Some(ep.staged_value[1].id)],
           panic  |-> FALSE,
           writes |-> << [param |-> ep.param.id, resource |-> ep.staged_value[1].id] >> ]

\* EffectParam::assign_value_if_staged
assign_value_if_staged(ep) ==
    IF ep.staged_value # None
    THEN assign_value(ep)
    ELSE [ ep |-> ep, panic |-> FALSE, writes |-> <<>> ]

\* An enable_and_drop that enables and releases the parameter handle only and
\* forgets the staged resource.
enable_and_drop_forgetting(ep, L) ==
    Discard(ep.prepared_value, DropParam(Enable(ep.param), L))

\* EffectParam::enable_and_drop: self is consumed; the parameter handle and
\* the staged resource are enabled and go out of scope, the prepared value
\* goes out of scope with them.
enable_and_drop(ep, L) ==
    LET L1 == DropParam(Enable(ep.param), L)
        L2 == IF ep.staged_value # None
              THEN DropResource(Enable(ep.staged_value[1]), L1)
              ELSE L1
    IN  Discard(ep.prepared_value, L2)

\* ------------------------------------------------------ EffectParamCustomFFT

\* The values the eight configuration properties are loaded with.
SettingsInputs ==
    { [ mix |-> 1, channel |-> 1, dampening_factor_attack |-> 0,
        dampening_factor_release |-> 0, mel_enabled |-> FALSE, n_mels |-> 1,
        f_min |-> 0, f_max |-> 10000 ],
      [ mix |-> 2, channel |-> 2, dampening_factor_attack |-> 100,
        dampening_factor_release |-> 50, mel_enabled |-> TRUE, n_mels |-> 1,
        f_min |-> 0, f_max |-> 8000 ] }

\* A descriptor that takes the 1-based mix and channel as they are.
AudioFFTDescriptor_one_based(properties) ==
    [ mix          |-> properties.mix,
      channel      |-> properties.channel,
      dampening_factor_attack  |-> [num |-> properties.dampening_factor_attack, den |-> 100],
      dampening_factor_release |-> [num |-> properties.dampening_factor_release, den |-> 100],
      window       |-> "Hanning",
      mel_enabled  |-> properties.mel_enabled,
      n_mels       |-> properties.n_mels,
      f_min        |-> properties.f_min,
      f_max        |-> properties.f_max ]

\* GlobalStateAudioFFTDescriptor::new_with_mel, from the loaded properties:
\* 1-based indices become 0-based, percentages become factors (a fraction).
AudioFFTDescriptor(properties) ==
    [ mix          |-> properties.mix - 1,
      channel      |-> properties.channel - 1,
      dampening_factor_attack  |-> [num |-> properties.dampening_factor_attack, den |-> 100],
      dampening_factor_release |-> [num |-> properties.dampening_factor_release, den |-> 100],
      window       |-> "Hanning",
      mel_enabled  |-> properties.mel_enabled,
      n_mels       |-> properties.n_mels,
      f_min        |-> properties.f_min,
      f_max        |-> properties.f_max ]

\* GLOBAL_STATE.request_audio_fft: the shared handle of the worker's entry for
\* the descriptor.
GlobalRequestAudioFFT(descriptor) == [ descriptor |-> descriptor ]

\* EffectParamCustomFFT::request_audio_fft
FFT_request_audio_fft(properties) ==
    Some(GlobalRequestAudioFFT(AudioFFTDescriptor(properties)))

\* A spectrum of n samples.
SpectrumOfLen(n) == [ i \in 1..n |-> IF i % 2 = 1 THEN F32_ONE ELSE F32_ZERO ]

\* What retrieve_result may return on a handle: nothing, or a result with a
\* linear magnitude spectrum and, optionally, a Mel spectrum of the
\* requested band count.
RetrieveResults(handle) ==
    { None } \cup
    { Some([ frequency_spectrum |-> SpectrumOfLen(n), mel_spectrum |-> m ]) :
        n \in {0, MaxSpectrumLen},
        m \in { None, Some(SpectrumOfLen(handle.descriptor.n_mels)) } }

\* A prepare_values that uses the Mel data whenever the result carries it.
FFT_prepare_values_mel_unchecked(ep, properties, polled, L) ==
    IF polled = None
    THEN [ ep |-> ep, ledger |-> L ]
    ELSE LET fft_result == polled[1]
             n == L.values + 1
             texture == IF fft_result.mel_spectrum # None
                        THEN SpectrumTexture(fft_result.mel_spectrum[1])
                        ELSE SpectrumTexture(fft_result.frequency_spectrum)
             p == prepare_value(ep, PreparedValue(n, texture), L)
         IN  [ ep |-> p.ep, ledger |-> [p.ledger EXCEPT !.values = n] ]

\* A prepare_values that falls back to an empty spectrum when the poll is empty.
FFT_prepare_values_defaulting(ep, properties, polled, L) ==
    LET n == L.values + 1
        spectrum == IF polled = None THEN <<>>
                    ELSE IF properties.mel_enabled /\ polled[1].mel_spectrum # None
                    THEN polled[1].mel_spectrum[1]
                    ELSE polled[1].frequency_spectrum
        p == prepare_value(ep, PreparedValue(n, SpectrumTexture(spectrum)), L)
    IN  [ ep |-> p.ep, ledger |-> [p.ledger EXCEPT !.values = n] ]

\* EffectParamCustomFFT::prepare_values, given what the poll returned.
FFT_prepare_values(ep, properties, polled, L) ==
    IF polled = None
    THEN [ ep |-> ep, ledger |-> L ]
    ELSE LET fft_result == polled[1]
             n == L.values + 1
             texture == IF properties.mel_enabled /\ fft_result.mel_spectrum # None
                        THEN SpectrumTexture(fft_result.mel_spectrum[1])
                        ELSE SpectrumTexture(fft_result.frequency_spectrum)
             p == prepare_value(ep, PreparedValue(n, texture), L)
         IN  [ ep |-> p.ep, ledger |-> [p.ledger EXCEPT !.values = n] ]

\* A stage_value that stages the new texture before the handoff.
FFT_stage_value_late_handoff(ep, previous, L) ==
    LET s == stage_value(ep, L)
    IN  IF previous # None /\ s.ep.staged_value # None
        THEN LET t == take_staged_value(s.ep)
                 c == stage_value_custom(previous[1], t.taken[1], s.ledger)
             IN  [ ep |-> t.ep, previous |-> Some(c.ep), ledger |-> c.ledger ]
        ELSE [ ep |-> s.ep, previous |-> previous, ledger |-> s.ledger ]

\* A stage_value that stages the previous slot from its own pending value when
\* the current slot has nothing to hand over.
FFT_stage_value_staging_both(ep, previous, L) ==
    LET handoff ==
            IF previous # None
            THEN LET t == take_staged_value(ep)
                 IN  IF t.taken # None
                     THEN LET c == stage_value_custom(previous[1], t.taken[1], L)
                          IN  [ ep |-> t.ep, previous |-> Some(c.ep), ledger |-> c.ledger ]
                     ELSE LET c == stage_value(previous[1], L)
                          IN  [ ep |-> t.ep, previous |-> Some(c.ep), ledger |-> c.ledger ]
            ELSE [ ep |-> ep, previous |-> previous, ledger |-> L ]
        s == stage_value(handoff.ep, handoff.ledger)
    IN  [ ep |-> s.ep, previous |-> handoff.previous, ledger |-> s.ledger ]

\* EffectParamCustomFFT::stage_value: the handoff of the staged texture into
\* the previous slot, if there is one, then the staging of the current slot.
FFT_stage_value(ep, previous, L) ==
    LET handoff ==
            IF previous # None
            THEN LET t == take_staged_value(ep)
                 IN  IF t.taken # None
                     THEN LET c == stage_value_custom(previous[1], t.taken[1], L)
                          IN  [ ep |-> t.ep, previous |-> Some(c.ep), ledger |-> c.ledger ]
                     ELSE [ ep |-> t.ep, previous |-> previous, ledger |-> L ]
            ELSE [ ep |-> ep, previous |-> previous, ledger |-> L ]
        s == stage_value(handoff.ep, handoff.ledger)
    IN  [ ep |-> s.ep, previous |-> handoff.previous, ledger |-> s.ledger ]

\* An assign_value that uses the fatal assign on the current slot.
FFT_assign_value_fatal(ep, previous) ==
    LET p == IF previous # None
             THEN assign_value_if_staged(previous[1])
             ELSE [ ep |-> None, panic |-> FALSE, writes |-> <<>> ]
        c == assign_value(ep)
    IN  [ ep       |-> c.ep,
          previous |-> IF previous # None THEN Some(p.ep) ELSE None,
          panic    |-> p.panic \/ c.panic,
          writes   |-> p.writes \o c.writes ]

\* EffectParamCustomFFT::assign_value
FFT_assign_value(ep, previous) ==
    LET p == IF previous # None
             THEN assign_value_if_staged(previous[1])
             ELSE [ ep |-> None, panic |-> FALSE, writes |-> <<>> ]
    IN  IF p.panic
        THEN [ ep |-> ep, previous |-> Some(p.ep), panic |-> TRUE, writes |-> p.writes ]
        ELSE LET c == assign_value_if_staged(ep)
             IN  [ ep       |-> c.ep,
                   previous |-> IF previous # None THEN Some(p.ep) ELSE None,
                   panic    |-> c.panic,
                   writes   |-> p.writes \o c.writes ]

\* EffectParamCustomFFT::enable_and_drop
FFT_enable_and_drop(ep, previous, L) ==
    LET L1 == IF previous # None THEN enable_and_drop(previous[1], L) ELSE L
    IN  enable_and_drop(ep, L1)

\* EffectParamCustomFFT::new, when every property loads: the two slots are
\* constructed and the worker's handle is requested.
FFT_new(has_previous, settings, L) ==
    LET c == EffectParam_new("param", L)
        p == EffectParam_new("param_previous", c.ledger)
    IN  [ effect_param          |-> c.ep,
          effect_param_previous |-> IF has_previous THEN Some(p.ep) ELSE None,
          audio_fft             |-> FFT_request_audio_fft(settings),
          properties            |-> settings,
          ledger                |-> IF has_previous THEN p.ledger ELSE c.ledger ]

\* ------------------------------------------------ f32 arithmetic (mel/utils.rs)

\* A non-negative f32 is [m, e] with value m * 2^e, m odd or zero: every value
\* has one representation.  Exponents are not limited: the inputs below stay
\* far from the overflow and subnormal ranges.
F32_MANTISSA_DIGITS == 24

RECURSIVE Pow2(_)
Pow2(n) == IF n = 0 THEN 1 ELSE 2 * Pow2(n - 1)

RECURSIVE BitLen(_)
BitLen(n) == IF n = 0 THEN 0 ELSE 1 + BitLen(n \div 2)

RECURSIVE Canonical(_, _)
Canonical(m, e) ==
    IF m = 0 THEN [ m |-> 0, e |-> 0 ]
    ELSE IF m % 2 = 0 THEN Canonical(m \div 2, e + 1)
    ELSE [ m |-> m, e |-> e ]

\* The f32 nearest to (n + fraction) * 2^e, ties to even; sticky says that the
\* fraction is not zero, and then n has more than F32_MANTISSA_DIGITS bits.
RoundF32(n, e, sticky) ==
    LET d == BitLen(n) - F32_MANTISSA_DIGITS
    IN  IF d <= 0 THEN Canonical(n, e)
        ELSE LET q == n \div Pow2(d)
                 r == n % Pow2(d)
                 half == Pow2(d - 1)
                 up == r > half \/ ( r = half /\ ( sticky \/ q % 2 = 1 ) )
             IN  Canonical(IF up THEN q + 1 ELSE q, e + d)

\* The integer part and the rest of x in units of 2^e.
Scaled(x, e) ==
    IF x.e >= e THEN [ n |-> x.m * Pow2(x.e - e), sticky |-> FALSE ]
    ELSE IF e - x.e >= F32_MANTISSA_DIGITS THEN [ n |-> 0, sticky |-> x.m # 0 ]
    ELSE [ n |-> x.m \div Pow2(e - x.e), sticky |-> x.m % Pow2(e - x.e) # 0 ]

\* The exponent at which the larger of x and y has 29 bits.
CommonExponent(x, y) ==
    LET top(v) == v.e + BitLen(v.m)
    IN  ( IF top(x) >= top(y) THEN top(x) ELSE top(y) ) - 29

F32FromNat(n) == RoundF32(n, 0, FALSE)

\* x + y
F32Add(x, y) ==
    IF x.m = 0 THEN y
    ELSE IF y.m = 0 THEN x
    ELSE LET e == CommonExponent(x, y)
             a == Scaled(x, e)
             b == Scaled(y, e)
         IN  RoundF32(a.n + b.n, e, a.sticky \/ b.sticky)

\* x - y, for x >= y
F32Sub(x, y) ==
    IF y.m = 0 THEN x
    ELSE LET e == CommonExponent(x, y)
             a == Scaled(x, e)
             b == Scaled(y, e)
         IN  IF b.sticky THEN RoundF32(a.n - b.n - 1, e, TRUE)
             ELSE RoundF32(a.n - b.n, e, FALSE)

\* x * y, for factors whose mantissas have no more than 31 bits together
F32Mul(x, y) == RoundF32(x.m * y.m, x.e + y.e, FALSE)

\* The quotient q of m by d continued bit by bit until it has 26 bits.
RECURSIVE LongDivision(_, _, _, _)
LongDivision(q, r, d, k) ==
    IF BitLen(q) >= F32_MANTISSA_DIGITS + 2 THEN [ q |-> q, r |-> r, k |-> k ]
    ELSE LongDivision(2 * q + ( IF 2 * r >= d THEN 1 ELSE 0 ),
                      IF 2 * r >= d THEN 2 * r - d ELSE 2 * r, d, k + 1)

\* x / y, for y # 0
F32Div(x, y) ==
    IF x.m = 0 THEN x
    ELSE LET l == LongDivision(x.m \div y.m, x.m % y.m, y.m, 0)
         IN  RoundF32(l.q, x.e - y.e - l.k, l.r # 0)

\* linspace
linspace(start, stop, num) ==
    IF num = 0 THEN << >>
    ELSE IF num = 1 THEN << start >>
    ELSE LET step == F32Div(F32Sub(stop, start), F32FromNat(num - 1))
         IN  [ k \in 1..num |-> F32Add(start, F32Mul(F32FromNat(k - 1), step)) ]

\* ------------------------------------------------- MelFilterBank::normalize

\* x < y
F32Less(x, y) ==
    LET e == CommonExponent(x, y)
        a == Scaled(x, e)
        b == Scaled(y, e)
    IN  a.n < b.n \/ ( a.n = b.n /\ ~a.sticky /\ b.sticky )

\* f32::min, f32::max
F32Min(x, y) == IF F32Less(y, x) THEN y ELSE x

F32Max(x, y) == IF F32Less(x, y) THEN y ELSE x

\* The literals 0.5 and 1e-6 as f32 values.
F32_HALF == Canonical(1, -1)

F32_1E_6 == Canonical(8796093, -43)

RECURSIVE MinVal(_, _, _)
MinVal(mel_values, i, min_val) ==
    IF i > Len(mel_values) THEN min_val
    ELSE MinVal(mel_values, i + 1, F32Min(min_val, mel_values[i]))

RECURSIVE MaxVal(_, _, _)
MaxVal(mel_values, i, max_val) ==
    IF i > Len(mel_values) THEN max_val
    ELSE MaxVal(mel_values, i + 1, F32Max(max_val, mel_values[i]))

\* A normalize that divides by the maximum instead of the range.
normalize_by_max(mel_values) ==
    IF mel_values = << >> THEN << >>
    ELSE LET min_val == MinVal(mel_values, 1, mel_values[1])
             max_val == MaxVal(mel_values, 1, mel_values[1])
         IN  IF F32Less(F32Sub(max_val, min_val), F32_1E_6)
             THEN [ i \in 1..Len(mel_values) |-> F32_HALF ]
             ELSE [ i \in 1..Len(mel_values) |->
                      F32Div(F32Sub(mel_values[i], min_val), max_val) ]

\* MelFilterBank::normalize
normalize(mel_values) ==
    IF mel_values = << >> THEN << >>
    ELSE LET min_val == MinVal(mel_values, 1, mel_values[1])
             max_val == MaxVal(mel_values, 1, mel_values[1])
         IN  IF F32Less(F32Sub(max_val, min_val), F32_1E_6)
             THEN [ i \in 1..Len(mel_values) |-> F32_HALF ]
             ELSE [ i \in 1..Len(mel_values) |->
                      F32Div(F32Sub(mel_values[i], min_val),
                             F32Sub(max_val, min_val)) ]

\* ------------------------------------------------------------- MelFilterBank

\* 1.0 + f / 700.0, the argument of the logarithm of hz_to_mel.
MelArgument(f) == F32Add(F32FromNat(1), F32Div(f, F32FromNat(700)))

\* f32::EPSILON, the distance between the f32 values from 1 up to 2.
F32_EPSILON == Canonical(1, 0 - 23)

\* The values 10_f32.powf(m / 2595.0) can take for the Mel value m of a
\* boundary frequency, m = 2595.0 * log10(a).  log10 and powf are inverses of
\* each other and their precision is unspecified: the result is a or one of
\* its two neighbours; log10(1.0) is 0.0 and 10_f32.powf(0.0) is 1.0.  For a
\* from 1 up to 2.
PowfOutcomes(a) ==
    IF a = F32FromNat(1) THEN { a }
    ELSE { F32Sub(a, F32_EPSILON), a, F32Add(a, F32_EPSILON) }

\* 700.0 * (p - 1.0), mel_to_hz from the power p on; p is not below 1.
HzOfPower(p) == F32Mul(F32FromNat(700), F32Sub(p, F32FromNat(1)))

\* floor() as usize of a non-negative f32 below 2^31.
FloorAsUsize(x) ==
    IF x.e >= 0 THEN x.m * Pow2(x.e)
    ELSE IF 0 - x.e > F32_MANTISSA_DIGITS THEN 0
    ELSE x.m \div Pow2(0 - x.e)

\* ((fft_size as f32 + 1.0) * hz / sample_rate).floor() as usize
BinOfHz(fft_size, hz, sample_rate) ==
    FloorAsUsize(F32Div(F32Mul(F32Add(F32FromNat(fft_size), F32FromNat(1)), hz),
                        sample_rate))

\* mel_points.iter().map(|&m| mel_to_hz(m)).collect(), from the powers on
RECURSIVE HzPoints(_)
HzPoints(powers) ==
    IF powers = << >> THEN << >>
    ELSE << HzOfPower(Head(powers)) >> \o HzPoints(Tail(powers))

\* hz_points.iter().map(|&hz| ...).collect(), the vector bin
RECURSIVE BinsOfHz(_, _, _)
BinsOfHz(fft_size, hz_points, sample_rate) ==
    IF hz_points = << >> THEN << >>
    ELSE << BinOfHz(fft_size, Head(hz_points), sample_rate) >>
         \o BinsOfHz(fft_size, Tail(hz_points), sample_rate)

\* The parameters of tests::test_mel_filter_bank.
TEST_FFT_SIZE == 512
TEST_N_MELS == 10

\* The vector bin of MelFilterBank::new for fft_size 512, sample_rate 16000,
\* n_mels 10, f_min 0 and f_max 8000: the floor of (fft_size + 1) * hz /
\* sample_rate at the n_mels + 2 points that linspace spaces evenly between
\* hz_to_mel(f_min) and hz_to_mel(f_max).  The logarithm and the power of
\* hz_to_mel and mel_to_hz are evaluated in f32; the values before floor are
\* 0.0, 5.78, 13.04, 22.18, 33.67, 48.12, 66.28, 89.13, 117.85, 153.97, 199.39
\* and 256.50.
TestBin == << 0, 5, 13, 22, 33, 48, 66, 89, 117, 153, 199, 256 >>

\* The coefficient a filter gets at bin j: the falling slope is written after
\* the rising slope.
FilterCoefficient(j, bin_left, bin_center, bin_right) ==
    IF j >= bin_center /\ j < bin_right /\ bin_right # bin_center
    THEN F32Div(F32FromNat(bin_right - j), F32FromNat(bin_right - bin_center))
    ELSE IF j >= bin_left /\ j < bin_center /\ bin_center # bin_left
    THEN F32Div(F32FromNat(j - bin_left), F32FromNat(bin_center - bin_left))
    ELSE F32FromNat(0)

\* The slopes of filter i write filter[j] for j in bin_left..bin_center and
\* for j in bin_center..bin_right (the upper ends excluded); an index that is
\* not below n_fft_bins is outside the row, and the indexing panics.
WritesOutside(bin, i, n_fft_bins) ==
    \/ bin[i] < bin[i + 1] /\ bin[i + 1] - 1 >= n_fft_bins
    \/ bin[i + 1] < bin[i + 2] /\ bin[i + 2] - 1 >= n_fft_bins

\* A MelFilterBank::new that leaves out the falling slopes.
MelFilterBank_new_rising_only(fft_size, n_mels, bin) ==
    LET n_fft_bins == fft_size \div 2 + 1
    IN  IF \E i \in 1..n_mels : WritesOutside(bin, i, n_fft_bins)
        THEN [ panic |-> TRUE, n_mels |-> n_mels, filters |-> << >> ]
        ELSE [ panic   |-> FALSE,
               n_mels  |-> n_mels,
               filters |-> [ i \in 1..n_mels |->
                               [ k \in 1..n_fft_bins |->
                                   FilterCoefficient(k - 1, bin[i], bin[i + 1], bin[i + 1]) ] ] ]

\* MelFilterBank::new, from the vector bin on; filter[j] is filters[i][j + 1].
MelFilterBank_new(fft_size, n_mels, bin) ==
    LET n_fft_bins == fft_size \div 2 + 1
    IN  IF \E i \in 1..n_mels : WritesOutside(bin, i, n_fft_bins)
        THEN [ panic |-> TRUE, n_mels |-> n_mels, filters |-> << >> ]
        ELSE [ panic   |-> FALSE,
               n_mels  |-> n_mels,
               filters |-> [ i \in 1..n_mels |->
                               [ k \in 1..n_fft_bins |->
                                   FilterCoefficient(k - 1, bin[i], bin[i + 1], bin[i + 2]) ] ] ]

\* The loop sum += filter[j] * fft_magnitudes[j] over the positions lo..hi in
\* ascending order, started with sum; the range is halved and the lower half
\* summed first to keep the evaluation shallow, which leaves the order of the
\* additions as it is.
RECURSIVE SumProducts(_, _, _, _, _)
SumProducts(filter, fft_magnitudes, lo, hi, sum) ==
    IF lo > hi THEN sum
    ELSE IF lo = hi THEN F32Add(sum, F32Mul(filter[lo], fft_magnitudes[lo]))
    ELSE LET mid == (lo + hi) \div 2
             lower == SumProducts(filter, fft_magnitudes, lo, mid, sum)
         IN  IF lower.m >= 0
             THEN SumProducts(filter, fft_magnitudes, mid + 1, hi, lower)
             ELSE lower

\* MelFilterBank::apply
MelFilterBank_apply(self, fft_magnitudes) ==
    [ i \in 1..self.n_mels |->
        LET filter == self.filters[i]
            bins == IF Len(fft_magnitudes) < Len(filter)
                    THEN Len(fft_magnitudes) ELSE Len(filter)
        IN  SumProducts(filter, fft_magnitudes, 1, bins, F32FromNat(0)) ]

\* mel_output.iter().sum()
RECURSIVE SumF32(_, _, _)
SumF32(values, k, sum) ==
    IF k > Len(values) THEN sum
    ELSE SumF32(values, k + 1, F32Add(sum, values[k]))

\* The filter bank and the spectrum of tests::test_mel_filter_bank, the
\* impulse at any bin.
TestFilterBank == MelFilterBank_new(TEST_FFT_SIZE, TEST_N_MELS, TestBin)

Impulse(bin) ==
    [ k \in 1..(TEST_FFT_SIZE \div 2 + 1) |->
        IF k - 1 = bin THEN F32FromNat(1) ELSE F32FromNat(0) ]

\* ----------------------------------------- construction of the adapters

MAX_AUDIO_MIXES == 6

\* The properties EffectParamCustomFFT::new loads, in the order it loads them.
PropertyNames ==
    << "mix", "channel", "dampening_factor_attack", "dampening_factor_release",
       "mel_enabled", "n_mels", "f_min", "f_max" >>

\* What new returns and leaves behind when loading a property fails: the `?`
\* returns the error, and the parameter handles it was given go out of scope
\* as they came, enabled.
NewFailed(error, params, L) ==
    LET dropped(i) == [ id |-> params[i], enabled |-> TRUE, value |-> None ]
    IN  [ ok |-> FALSE, error |-> error, adapter |-> None, requests |-> << >>,
          ledger |-> IF Len(params) = 2
                     THEN DropParam(dropped(1), DropParam(dropped(2), L))
                     ELSE DropParam(dropped(1), L) ]

\* An EffectParamCustomFFT::new that builds the slots and requests the handle
\* before it loads the properties.
FFT_try_new_eager(has_previous, settings, failing, L) ==
    LET a == FFT_new(has_previous, settings, L)
    IN  IF failing # 0
        THEN [ ok |-> FALSE, error |-> PropertyNames[failing], adapter |-> None,
               requests |-> << AudioFFTDescriptor(settings) >>,
               ledger |-> [a.ledger EXCEPT !.discarded = 1..a.ledger.values] ]
        ELSE [ ok |-> TRUE, error |-> "", adapter |-> Some(a),
               requests |-> << AudioFFTDescriptor(settings) >>, ledger |-> a.ledger ]

\* EffectParamCustomFFT::new; failing is the number of the first property
\* whose loading fails, 0 if none does.
FFT_try_new(has_previous, settings, failing, L) ==
    IF failing # 0
    THEN NewFailed(PropertyNames[failing],
                   IF has_previous THEN << "param", "param_previous" >> ELSE << "param" >>, L)
    ELSE LET a == FFT_new(has_previous, settings, L)
         IN  [ ok |-> TRUE, error |-> "", adapter |-> Some(a),
               requests |-> << AudioFFTDescriptor(settings) >>, ledger |-> a.ledger ]

\* ------------------------------------ EffectParamCustomBool, Int, Float, Color

ScalarKinds == { "bool", "int", "float", "color" }

\* Default::default() of the parameter's Rust type.
RustTypeDefault(kind) ==
    CASE kind = "bool"  -> FALSE
      [] kind = "int"   -> 0
      [] kind = "float" -> F32FromNat(0)
      [] kind = "color" -> << F32FromNat(0), F32FromNat(0), F32FromNat(0), F32FromNat(0) >>

\* The value prepared for a property value: bool and i32 as they are, f64
\* narrowed by `as f32`, Color unwrapped by into().  An f64 is [m, e] with
\* value m * 2^e.
ToShaderValue(kind, value) ==
    CASE kind = "float" -> RoundF32(value.m, value.e, FALSE)
      [] kind = "color" -> value.rgba
      [] OTHER          -> value

\* The property values the scalar adapters are given: 0.5 and 1 + 2^-30 are
\* f64 values, the second of which is no f32.
ScalarInputs ==
    { [ kind |-> "bool", value |-> b ] : b \in BOOLEAN }
    \cup { [ kind |-> "int", value |-> i ] : i \in { 0, 7 } }
    \cup { [ kind |-> "float", value |-> x ] :
             x \in { [ m |-> 1, e |-> -1 ], [ m |-> 1073741825, e |-> -30 ] } }
    \cup { [ kind |-> "color", value |-> [ rgba |-> c ] ] :
             c \in { << F32FromNat(0), F32FromNat(0), F32FromNat(0), F32FromNat(0) >>,
                     << F32FromNat(1), F32_HALF, F32FromNat(0), F32FromNat(1) >> } }

\* A reload_settings that re-reads the property and prepares nothing.
Scalar_reload_settings_unprepared(ep, property, L) ==
    [ ep |-> ep, property |-> property, ledger |-> L ]

\* reload_settings of a scalar adapter; property is what the reload reads.
Scalar_reload_settings(ep, property, L) ==
    LET n == L.values + 1
        p == prepare_value(ep, PreparedValue(n, ToShaderValue(property.kind, property.value)), L)
    IN  [ ep |-> p.ep, property |-> property, ledger |-> [p.ledger EXCEPT !.values = n] ]

\* new of a scalar adapter: the property is loaded, then the EffectParam is
\* constructed with the default of its type pending, then the property's
\* value is prepared.
Scalar_new(property, failing, L) ==
    IF failing
    THEN NewFailed("property", << "param" >>, L)
    ELSE LET e == EffectParam_new("param", L)
             effect_param == [e.ep EXCEPT !.prepared_value =
                                Some(PreparedValue(e.ledger.values, RustTypeDefault(property.kind)))]
             n == e.ledger.values + 1
             p == prepare_value(effect_param,
                                PreparedValue(n, ToShaderValue(property.kind, property.value)),
                                e.ledger)
         IN  [ ok |-> TRUE, error |-> "", requests |-> << >>,
               ledger |-> [p.ledger EXCEPT !.values = n],
               adapter |-> Some([ effect_param |-> p.ep, property |-> property ]) ]

\* ------------------------------------------- ReloadButtonState (ui/properties.rs)

\* ReloadButtonState::new: the flag is false and the state is its one owner.
ReloadButtonState_new == [ value |-> FALSE, strong_count |-> 1 ]

\* self.reload_requested.clone(), in get_button_property for the callback
\* and in get_reload_requested_handle for the caller.
Arc_clone(self) == [self EXCEPT !.strong_count = @ + 1]

\* The callback of the button: reload_requested.store(true, Ordering::SeqCst).
ButtonCallback(self) == [self EXCEPT !.value = TRUE]

\* A check_and_reset that loads the flag and leaves it as it is.
check_and_reset_loading(self) == [ self |-> self, result |-> self.value ]

\* ReloadButtonState::check_and_reset: swap(false, Ordering::SeqCst) returns
\* the value it replaces, in one atomic step.
check_and_reset(self) == [ self |-> [self EXCEPT !.value = FALSE], result |-> self.value ]

\* ------------------------------------------------------------------ state

VARIABLES
    effect_param,           \* Option<EffectParamTexture>: None once consumed by enable_and_drop
    effect_param_previous,  \* Option<EffectParamTexture>: None if absent or consumed
    audio_fft,              \* Option<Arc<GlobalStateAudioFFT>>
    properties,             \* the loaded values of the eight properties
    taken,                  \* the resource a caller of take_staged_value holds
    ledger,                 \* bookkeeping of values, resources and releases
    panicked,               \* a fatal contract error was raised
    op,                     \* the handler that ran last and what it wrote
    hist,                   \* the polls and the slots of the last frames
    since,                  \* per slot: the last of new / prepare_value / stage_value
    call,                   \* the last call of a constructor or a pure function
    reload_requested        \* Arc<AtomicBool> of ReloadButtonState: its value and its owners

vars == << effect_param, effect_param_previous, audio_fft, properties, taken,
           ledger, panicked, op, hist, since, call, reload_requested >>

\* The slot whose EffectParam interface is called directly; the previous slot
\* is reached through the adapter's handlers.
Targets == { "current" }

Slot(t) == IF t = "current" THEN effect_param ELSE effect_param_previous

Op(name, target, writes, polled) ==
    [ name |-> name, target |-> target, writes |-> writes, polled |-> polled,
      again |-> op.name = name /\ op.target = target ]

OpInit == [ name |-> "new", target |-> "adapter", writes |-> <<>>, polled |-> FALSE,
            again |-> FALSE ]

HistInit ==
    [ polled   |-> "idle",                \* polls since the last stage_value: idle, none, new
      frames   |-> << "never", "never" >>,  \* the polls of the last two stage_value calls
      current  |-> << None, None >>,      \* the current slot after each of them
      previous |-> << None, None >> ]     \* the previous slot after each of them

\* took: take_staged_value has been called on the current slot.
SinceInit == [ current |-> "new", previous |-> "new", took |-> FALSE ]

CallInit == [ fn |-> "none" ]

Staged(slot) == IF slot = None THEN None ELSE slot[1].staged_value

\* ------------------------------------------------- the adapter's handlers

Init ==
    \E has_previous \in BOOLEAN, settings \in SettingsInputs :
        LET a == FFT_new(has_previous, settings, LedgerInit)
        IN  /\ effect_param = Some(a.effect_param)
            /\ effect_param_previous = a.effect_param_previous
            /\ audio_fft = a.audio_fft
            /\ properties = a.properties
            /\ ledger = a.ledger
            /\ taken = None
            /\ panicked = FALSE
            /\ op = OpInit
            /\ hist = HistInit
            /\ since = SinceInit
            /\ call = CallInit
            /\ reload_requested = ReloadButtonState_new

Live == effect_param # None /\ ~panicked

ReloadSettings ==
    /\ Live
    /\ \E settings \in SettingsInputs :
        /\ properties' = settings
        /\ audio_fft' = FFT_request_audio_fft(settings)
    /\ op' = Op("reload_settings", "adapter", <<>>, FALSE)
    /\ UNCHANGED << effect_param, effect_param_previous, taken, ledger, panicked, hist, since, call, reload_requested >>

PrepareValues ==
    /\ Live
    /\ \E polled \in RetrieveResults(audio_fft[1]) :
        LET r == FFT_prepare_values(effect_param[1], properties, polled, ledger)
        IN  /\ r.ledger.values <= MaxValues
            /\ effect_param' = Some(r.ep)
            /\ ledger' = r.ledger
            /\ op' = Op("prepare_values", "adapter", <<>>, polled # None)
            /\ hist' = [hist EXCEPT !.polled = IF polled # None \/ @ = "new"
                                               THEN "new" ELSE "none"]
            /\ since' = IF r.ep.prepared_value # effect_param[1].prepared_value
                        THEN [since EXCEPT !.current = "prepared"] ELSE since
    /\ UNCHANGED << effect_param_previous, audio_fft, properties, taken, panicked, call, reload_requested >>

StageValue ==
    /\ Live
    /\ LET r == FFT_stage_value(effect_param[1], effect_param_previous, ledger)
       IN  /\ Len(r.ledger.resources) <= MaxResources
           /\ effect_param' = Some(r.ep)
           /\ effect_param_previous' = r.previous
           /\ ledger' = r.ledger
           /\ hist' = [ polled   |-> "idle",
                        frames   |-> << hist.frames[2], hist.polled >>,
                        current  |-> << hist.current[2], r.ep.staged_value >>,
                        previous |-> << hist.previous[2], Staged(r.previous) >> ]
    /\ op' = Op("stage_value", "adapter", <<>>, FALSE)
    /\ since' = [since EXCEPT !.current = "staged",
                              !.took = @ \/ effect_param_previous # None]
    /\ UNCHANGED << audio_fft, properties, taken, panicked, call, reload_requested >>

AssignValue ==
    /\ Live
    /\ LET r == FFT_assign_value(effect_param[1], effect_param_previous)
       IN  /\ effect_param' = Some(r.ep)
           /\ effect_param_previous' = r.previous
           /\ panicked' = r.panic
           /\ op' = Op("assign_value", "adapter", r.writes, FALSE)
    /\ UNCHANGED << audio_fft, properties, taken, ledger, hist, since, call, reload_requested >>

EnableAndDrop ==
    /\ Live
    /\ ledger' = FFT_enable_and_drop(effect_param[1], effect_param_previous, ledger)
    /\ effect_param' = None
    /\ effect_param_previous' = None
    /\ audio_fft' = None
    /\ op' = Op("enable_and_drop", "adapter", <<>>, FALSE)
    /\ UNCHANGED << properties, taken, panicked, hist, since, call, reload_requested >>

Next ==
    \/ ReloadSettings
    \/ PrepareValues
    \/ StageValue
    \/ AssignValue
    \/ EnableAndDrop

Spec == Init /\ [][Next]_vars

\* --------------------------------- the EffectParam interface, called freely

\* The payloads a caller prepares.
PayloadInputs == { TextureDescriptorDefault, SpectrumTexture(SpectrumOfLen(MaxSpectrumLen)) }

InitParam ==
    LET a == FFT_new(TRUE, CHOOSE x \in SettingsInputs : ~x.mel_enabled, LedgerInit)
    IN  /\ effect_param = Some(a.effect_param)
        /\ effect_param_previous = a.effect_param_previous
        /\ audio_fft = a.audio_fft
        /\ properties = a.properties
        /\ ledger = a.ledger
        /\ taken = None
        /\ panicked = FALSE
        /\ op = OpInit
        /\ hist = HistInit
        /\ since = SinceInit
        /\ call = CallInit
        /\ reload_requested = ReloadButtonState_new

Put(t, ep) ==
    /\ effect_param' = IF t = "current" THEN ep ELSE effect_param
    /\ effect_param_previous' = IF t = "previous" THEN ep ELSE effect_param_previous

Usable(t) == Slot(t) # None /\ ~panicked

ParamPrepareValue(t) ==
    /\ Usable(t)
    /\ ledger.values < MaxValues
    /\ \E payload \in PayloadInputs :
        LET n == ledger.values + 1
            r == prepare_value(Slot(t)[1], PreparedValue(n, payload), ledger)
        IN  /\ Put(t, Some(r.ep))
            /\ ledger' = [r.ledger EXCEPT !.values = n]
    /\ op' = Op("prepare_value", t, <<>>, FALSE)
    /\ since' = [since EXCEPT ![t] = "prepared"]
    /\ UNCHANGED << audio_fft, properties, taken, panicked, hist, call, reload_requested >>

ParamStageValue(t) ==
    /\ Usable(t)
    /\ LET r == stage_value(Slot(t)[1], ledger)
       IN  /\ Len(r.ledger.resources) <= MaxResources
           /\ Put(t, Some(r.ep))
           /\ ledger' = r.ledger
    /\ op' = Op("stage_value", t, <<>>, FALSE)
    /\ since' = [since EXCEPT ![t] = "staged"]
    /\ UNCHANGED << audio_fft, properties, taken, panicked, hist, call, reload_requested >>

ParamTakeStagedValue(t) ==
    /\ Usable(t)
    /\ taken = None
    /\ LET r == take_staged_value(Slot(t)[1])
       IN  /\ Put(t, Some(r.ep))
           /\ taken' = r.taken
    /\ op' = Op("take_staged_value", t, <<>>, FALSE)
    /\ since' = [since EXCEPT !.took = TRUE]
    /\ UNCHANGED << audio_fft, properties, ledger, panicked, hist, call, reload_requested >>

ParamStageValueCustom(t) ==
    /\ Usable(t)
    /\ taken # None
    /\ LET r == stage_value_custom(Slot(t)[1], taken[1], ledger)
       IN  /\ Put(t, Some(r.ep))
           /\ ledger' = r.ledger
    /\ taken' = None
    /\ op' = Op("stage_value_custom", t, <<>>, FALSE)
    /\ UNCHANGED << audio_fft, properties, panicked, hist, since, call, reload_requested >>

ParamAssignValue(t) ==
    /\ Usable(t)
    /\ LET r == assign_value(Slot(t)[1])
       IN  /\ Put(t, Some(r.ep))
           /\ panicked' = r.panic
           /\ op' = Op("assign_value", t, r.writes, FALSE)
    /\ UNCHANGED << audio_fft, properties, taken, ledger, hist, since, call, reload_requested >>

ParamAssignValueIfStaged(t) ==
    /\ Usable(t)
    /\ LET r == assign_value_if_staged(Slot(t)[1])
       IN  /\ Put(t, Some(r.ep))
           /\ panicked' = r.panic
           /\ op' = Op("assign_value_if_staged", t, r.writes, FALSE)
    /\ UNCHANGED << audio_fft, properties, taken, ledger, hist, since, call, reload_requested >>

ParamEnableAndDrop(t) ==
    /\ Usable(t)
    /\ ledger' = enable_and_drop(Slot(t)[1], ledger)
    /\ Put(t, None)
    /\ op' = Op("enable_and_drop", t, <<>>, FALSE)
    /\ UNCHANGED << audio_fft, properties, taken, panicked, hist, since, call, reload_requested >>

\* The adapter's stage_value and enable_and_drop on the pair of slots.
PairStageValue ==
    /\ Usable("current")
    /\ LET r == FFT_stage_value(effect_param[1], effect_param_previous, ledger)
       IN  /\ Len(r.ledger.resources) <= MaxResources
           /\ effect_param' = Some(r.ep)
           /\ effect_param_previous' = r.previous
           /\ ledger' = r.ledger
    /\ op' = Op("stage_value", "adapter", <<>>, FALSE)
    /\ since' = [since EXCEPT !.current = "staged",
                              !.took = @ \/ effect_param_previous # None]
    /\ UNCHANGED << audio_fft, properties, taken, panicked, hist, call, reload_requested >>

PairEnableAndDrop ==
    /\ Usable("current")
    /\ ledger' = FFT_enable_and_drop(effect_param[1], effect_param_previous, ledger)
    /\ effect_param' = None
    /\ effect_param_previous' = None
    /\ op' = Op("enable_and_drop", "adapter", <<>>, FALSE)
    /\ UNCHANGED << audio_fft, properties, taken, panicked, hist, since, call, reload_requested >>

NextParam ==
    \/ \E t \in Targets : ParamPrepareValue(t)
    \/ \E t \in Targets : ParamStageValue(t)
    \/ \E t \in Targets : ParamTakeStagedValue(t)
    \/ \E t \in Targets : ParamStageValueCustom(t)
    \/ \E t \in Targets : ParamAssignValue(t)
    \/ \E t \in Targets : ParamAssignValueIfStaged(t)
    \/ \E t \in Targets : ParamEnableAndDrop(t)
    \/ PairStageValue
    \/ PairEnableAndDrop

SpecParam == InitParam /\ [][NextParam]_vars

\* --------------------------------------------------------- calls of linspace

MaxStart == 1
MaxStop == 14
MaxNum == 12

\* The arguments of a call: f32 values start <= stop and a count.
LinspaceInputs ==
    { [ start |-> F32FromNat(t[1]), stop |-> F32FromNat(t[2]), num |-> t[3] ] :
        t \in { u \in (0..MaxStart) \X (0..MaxStop) \X (0..MaxNum) : u[1] <= u[2] } }

\* Nothing of the adapters exists while the pure functions are called.
Idle ==
    /\ effect_param = None
    /\ effect_param_previous = None
    /\ audio_fft = None
    /\ properties = [ loaded |-> FALSE ]
    /\ taken = None
    /\ ledger = LedgerInit
    /\ panicked = FALSE
    /\ op = OpInit
    /\ hist = HistInit
    /\ since = SinceInit
    /\ reload_requested = ReloadButtonState_new

StayIdle ==
    UNCHANGED << effect_param, effect_param_previous, audio_fft, properties, taken,
                 ledger, panicked, op, hist, since, reload_requested >>

InitLinspace ==
    /\ Idle
    /\ \E args \in LinspaceInputs :
        /\ call = [ fn |-> "linspace", args |-> args, done |-> FALSE, result |-> << >> ]

CallLinspace ==
    /\ call.fn = "linspace"
    /\ ~call.done
    /\ call' = [call EXCEPT !.done = TRUE,
                            !.result = linspace(call.args.start, call.args.stop,
                                                call.args.num)]
    /\ StayIdle

SpecLinspace == InitLinspace /\ [][CallLinspace]_vars

\* -------------------------------------------------------- calls of normalize

MaxMelValues == 3

\* Mel values: small integers, and 5 plus one and plus three units in the last
\* place, which are less and more than 1e-6 away from 5.
MelValueInputs ==
    { F32FromNat(0), F32FromNat(1), F32FromNat(2), F32FromNat(3), F32FromNat(5),
      Canonical(10485761, -21), Canonical(10485763, -21) }

RECURSIVE SeqsUpTo(_, _)
SeqsUpTo(S, n) ==
    IF n = 0 THEN { << >> }
    ELSE LET shorter == SeqsUpTo(S, n - 1)
         IN  shorter \cup { Append(s, x) : s \in { t \in shorter : Len(t) = n - 1 }, x \in S }

InitNormalize ==
    /\ Idle
    /\ \E mel_values \in SeqsUpTo(MelValueInputs, MaxMelValues) :
        call = [ fn |-> "normalize", args |-> mel_values, done |-> FALSE, result |-> << >> ]

CallNormalize ==
    /\ call.fn = "normalize"
    /\ ~call.done
    /\ call' = [call EXCEPT !.done = TRUE, !.result = normalize(call.args)]
    /\ StayIdle

SpecNormalize == InitNormalize /\ [][CallNormalize]_vars

\* ------------------------------------------- calls of MelFilterBank::apply

InitMel ==
    /\ Idle
    /\ \E bin \in 0..(TEST_FFT_SIZE \div 2) :
        call = [ fn |-> "apply", args |-> bin, done |-> FALSE, result |-> << >>,
                 sum |-> F32FromNat(0) ]

CallMel ==
    /\ call.fn = "apply"
    /\ ~call.done
    /\ LET mel_output == MelFilterBank_apply(TestFilterBank, Impulse(call.args))
       IN  call' = [call EXCEPT !.done = TRUE,
                                !.result = mel_output,
                                !.sum = SumF32(mel_output, 1, F32FromNat(0))]
    /\ StayIdle

SpecMel == InitMel /\ [][CallMel]_vars

\* ------------------------------- the adapters from construction onwards

\* The property values the FFT adapter is given: every mix, every channel,
\* dampening percentages across 0..100, and Mel band counts.
DampeningInputs == { 0, 1, 50, 99, 100 }

WideSettings ==
    LET base == CHOOSE x \in SettingsInputs : ~x.mel_enabled
    IN  { [base EXCEPT !.mix = m] : m \in 1..MAX_AUDIO_MIXES }
        \cup { [base EXCEPT !.channel = c] : c \in 1..2 }
        \cup { [base EXCEPT !.dampening_factor_attack = d,
                            !.dampening_factor_release = 100 - d] : d \in DampeningInputs }
        \cup { [base EXCEPT !.mel_enabled = TRUE, !.n_mels = n] : n \in { 1, 3 } }

InitAdapters == Idle /\ call = CallInit

\* The adapter of one of the kinds has been constructed and is usable.
Built(kinds) == call.fn = "new" /\ call.ok /\ call.kind \in kinds /\ Live

Constructed(kind, r) ==
    /\ call' = [ fn |-> "new", kind |-> kind, ok |-> r.ok, error |-> r.error,
                 requests |-> r.requests, polled |-> None ]
    /\ ledger' = r.ledger
    /\ op' = Op("new", "adapter", <<>>, FALSE)
    /\ UNCHANGED << taken, panicked, hist, since, reload_requested >>

NewFFT ==
    /\ call.fn = "none"
    /\ \E has_previous \in BOOLEAN, settings \in WideSettings, failing \in 0..Len(PropertyNames) :
        LET r == FFT_try_new(has_previous, settings, failing, ledger)
        IN  /\ Constructed("fft", r)
            /\ effect_param' = IF r.ok THEN Some(r.adapter[1].effect_param) ELSE None
            /\ effect_param_previous' = IF r.ok THEN r.adapter[1].effect_param_previous ELSE None
            /\ audio_fft' = IF r.ok THEN r.adapter[1].audio_fft ELSE None
            /\ properties' = IF r.ok THEN r.adapter[1].properties ELSE properties

NewScalar ==
    /\ call.fn = "none"
    /\ \E property \in ScalarInputs, failing \in BOOLEAN :
        LET r == Scalar_new(property, failing, ledger)
        IN  /\ Constructed(property.kind, r)
            /\ effect_param' = IF r.ok THEN Some(r.adapter[1].effect_param) ELSE None
            /\ properties' = IF r.ok THEN r.adapter[1].property ELSE properties
            /\ UNCHANGED << effect_param_previous, audio_fft >>

FFTReloadSettings ==
    /\ Built({ "fft" })
    /\ \E settings \in WideSettings :
        /\ properties' = settings
        /\ audio_fft' = FFT_request_audio_fft(settings)
    /\ op' = Op("reload_settings", "adapter", <<>>, FALSE)
    /\ UNCHANGED << effect_param, effect_param_previous, taken, ledger, panicked, hist, since, call, reload_requested >>

FFTPrepareValues ==
    /\ Built({ "fft" })
    /\ \E polled \in RetrieveResults(audio_fft[1]) :
        LET r == FFT_prepare_values(effect_param[1], properties, polled, ledger)
        IN  /\ r.ledger.values <= MaxValues
            /\ effect_param' = Some(r.ep)
            /\ ledger' = r.ledger
            /\ op' = Op("prepare_values", "adapter", <<>>, polled # None)
            /\ call' = [call EXCEPT !.polled = polled]
    /\ UNCHANGED << effect_param_previous, audio_fft, properties, taken, panicked, hist, since,
                    reload_requested >>

ScalarReloadSettings ==
    /\ Built(ScalarKinds)
    /\ ledger.values < MaxValues
    /\ \E property \in { x \in ScalarInputs : x.kind = call.kind } :
        LET r == Scalar_reload_settings(effect_param[1], property, ledger)
        IN  /\ effect_param' = Some(r.ep)
            /\ properties' = r.property
            /\ ledger' = r.ledger
    /\ op' = Op("reload_settings", "adapter", <<>>, FALSE)
    /\ since' = [since EXCEPT !.current = "prepared"]
    /\ UNCHANGED << effect_param_previous, audio_fft, taken, panicked, hist, call, reload_requested >>

ScalarPrepareValues ==
    /\ Built(ScalarKinds)
    /\ op' = Op("prepare_values", "adapter", <<>>, FALSE)
    /\ UNCHANGED << effect_param, effect_param_previous, audio_fft, properties, taken,
                    ledger, panicked, hist, since, call, reload_requested >>

ScalarStageValue == Built(ScalarKinds) /\ ParamStageValue("current")

ScalarAssignValue == Built(ScalarKinds) /\ ParamAssignValue("current")

ScalarEnableAndDrop == Built(ScalarKinds) /\ ParamEnableAndDrop("current")

NextAdapters ==
    \/ NewFFT
    \/ NewScalar
    \/ FFTReloadSettings
    \/ FFTPrepareValues
    \/ ScalarReloadSettings
    \/ ScalarPrepareValues
    \/ ScalarStageValue
    \/ ScalarAssignValue
    \/ ScalarEnableAndDrop

SpecAdapters == InitAdapters /\ [][NextAdapters]_vars

\* ------------------------------------ every adapter from new to its teardown

\* The state after the construction of one adapter, of any kind.
InitTeardown ==
    /\ taken = None
    /\ panicked = FALSE
    /\ op = OpInit
    /\ hist = HistInit
    /\ since = SinceInit
    /\ reload_requested = ReloadButtonState_new
    /\ \/ \E has_previous \in BOOLEAN, settings \in SettingsInputs :
            LET r == FFT_try_new(has_previous, settings, 0, LedgerInit)
            IN  /\ effect_param = Some(r.adapter[1].effect_param)
                /\ effect_param_previous = r.adapter[1].effect_param_previous
                /\ audio_fft = r.adapter[1].audio_fft
                /\ properties = r.adapter[1].properties
                /\ ledger = r.ledger
                /\ call = [ fn |-> "new", kind |-> "fft", ok |-> r.ok, error |-> r.error,
                            requests |-> r.requests, polled |-> None ]
       \/ \E property \in ScalarInputs :
            LET r == Scalar_new(property, FALSE, LedgerInit)
            IN  /\ effect_param = Some(r.adapter[1].effect_param)
                /\ effect_param_previous = None
                /\ audio_fft = None
                /\ properties = r.adapter[1].property
                /\ ledger = r.ledger
                /\ call = [ fn |-> "new", kind |-> property.kind, ok |-> r.ok, error |-> r.error,
                            requests |-> r.requests, polled |-> None ]

NextTeardown ==
    \/ Built({ "fft" }) /\ ReloadSettings
    \/ Built({ "fft" }) /\ PrepareValues
    \/ Built({ "fft" }) /\ PairStageValue
    \/ Built({ "fft" }) /\ AssignValue
    \/ Built({ "fft" }) /\ EnableAndDrop
    \/ ScalarReloadSettings
    \/ ScalarPrepareValues
    \/ ScalarStageValue
    \/ ScalarAssignValue
    \/ ScalarEnableAndDrop

SpecTeardown == InitTeardown /\ [][NextTeardown]_vars

\* --------------------------------------------- calls of MelFilterBank::new

MaxNMels == 2

FftSizeInputs == { 8, 9 }

\* 16.0 and 13 * 2^-17
SampleRateInputs == { F32FromNat(16), Canonical(13, 0 - 17) }

\* 0.0, 4.0, 8.0 and 13 * 2^-18
FrequencyInputs == { F32FromNat(0), F32FromNat(4), F32FromNat(8), Canonical(13, 0 - 18) }

\* The powers 10_f32.powf(m / 2595.0) for the n_mels + 2 Mel points m that
\* linspace spaces from hz_to_mel(f_min) to hz_to_mel(f_max): the first and
\* the last are those of the boundary frequencies, the ones between them lie
\* between the two and follow each other in the same direction.
PowersOfMelPoints(n_mels, f_min, f_max) ==
    LET grid == { MelArgument(f) : f \in FrequencyInputs }
        between(x, a, b) ==
            ( ~F32Less(x, a) /\ ~F32Less(b, x) ) \/ ( ~F32Less(x, b) /\ ~F32Less(a, x) )
        ordered(x, y, a, b) == IF F32Less(b, a) THEN ~F32Less(x, y) ELSE ~F32Less(y, x)
        inner(first, last) ==
            LET candidates == { x \in { first, last } \cup grid : between(x, first, last) }
            IN  { p \in [ 1..n_mels -> candidates ] :
                    \A k \in 1..(n_mels - 1) : ordered(p[k], p[k + 1], first, last) }
    IN  UNION { { << first >> \o p \o << last >> : p \in inner(first, last) } :
                first \in PowfOutcomes(MelArgument(f_min)),
                last \in PowfOutcomes(MelArgument(f_max)) }

InitMelNew ==
    /\ Idle
    /\ \E fft_size \in FftSizeInputs, sample_rate \in SampleRateInputs, n_mels \in 0..MaxNMels,
          f_min \in FrequencyInputs, f_max \in FrequencyInputs :
        call = [ fn |-> "MelFilterBank::new",
                 args |-> [ fft_size |-> fft_size, sample_rate |-> sample_rate,
                            n_mels |-> n_mels, f_min |-> f_min, f_max |-> f_max ],
                 done |-> FALSE, hz_points |-> << >>, bin |-> << >>,
                 result |-> [ panic |-> FALSE, n_mels |-> 0, filters |-> << >> ] ]

\* MelFilterBank::new
CallMelNew ==
    /\ call.fn = "MelFilterBank::new"
    /\ ~call.done
    /\ \E powers \in PowersOfMelPoints(call.args.n_mels, call.args.f_min, call.args.f_max) :
        LET hz_points == HzPoints(powers)
            bin == BinsOfHz(call.args.fft_size, hz_points, call.args.sample_rate)
        IN  call' = [call EXCEPT !.done = TRUE,
                                 !.hz_points = hz_points,
                                 !.bin = bin,
                                 !.result = MelFilterBank_new(call.args.fft_size,
                                                              call.args.n_mels, bin)]
    /\ StayIdle

SpecMelNew == InitMelNew /\ [][CallMelNew]_vars

\* ------------------------------------------------ the reload button's state

MaxOwners == 3     \* owners of the Arc: the state, the buttons' callbacks, the handles
MaxClicks == 3     \* clicks on the buttons in one run
MaxChecks == 3     \* calls of check_and_reset in one run

\* call keeps, as bookkeeping, the clicks since the last check_and_reset, the
\* total of the clicks, and the number and the results of the checks.
InitReload ==
    /\ Idle
    /\ call = [ fn |-> "ReloadButtonState::new", result |-> FALSE, buttons |-> 0,
                pending |-> 0, clicks |-> 0, checks |-> 0, trues |-> 0 ]

StayIdleButReload ==
    UNCHANGED << effect_param, effect_param_previous, audio_fft, properties, taken,
                 ledger, panicked, op, hist, since >>

\* ReloadButtonState::get_button_property: the callback owns a clone.
GetButtonProperty ==
    /\ reload_requested.strong_count < MaxOwners
    /\ reload_requested' = Arc_clone(reload_requested)
    /\ call' = [call EXCEPT !.fn = "get_button_property", !.buttons = @ + 1]
    /\ StayIdleButReload

\* ReloadButtonState::get_reload_requested_handle
GetReloadRequestedHandle ==
    /\ reload_requested.strong_count < MaxOwners
    /\ reload_requested' = Arc_clone(reload_requested)
    /\ call' = [call EXCEPT !.fn = "get_reload_requested_handle"]
    /\ StayIdleButReload

\* A click on one of the buttons, on the thread of the user interface.
Click ==
    /\ call.buttons > 0
    /\ call.clicks < MaxClicks
    /\ reload_requested' = ButtonCallback(reload_requested)
    /\ call' = [call EXCEPT !.fn = "click", !.pending = @ + 1, !.clicks = @ + 1]
    /\ StayIdleButReload

\* ReloadButtonState::check_and_reset, on any thread.
CheckAndReset ==
    /\ call.checks < MaxChecks
    /\ LET r == check_and_reset(reload_requested)
       IN  /\ reload_requested' = r.self
           /\ call' = [call EXCEPT !.fn = "check_and_reset", !.result = r.result,
                                   !.pending = 0, !.checks = @ + 1,
                                   !.trues = IF r.result THEN @ + 1 ELSE @]
    /\ StayIdleButReload

NextReload ==
    \/ GetButtonProperty
    \/ GetReloadRequestedHandle
    \/ Click
    \/ CheckAndReset

SpecReload == InitReload /\ [][NextReload]_vars

\* ----------------------------------------------------------------- claims

AssignNames == { "assign_value", "assign_value_if_staged" }

\* The write assign_value makes for a slot that has something staged.
WriteOf(slot) ==
    IF Staged(slot) = None THEN <<>>
    ELSE << [param |-> slot[1].param.id, resource |-> Staged(slot)[1].id] >>

\* The number of resources converted from value v.
Conversions(v) ==
    Cardinality({ i \in 1..Len(ledger.resources) : ledger.resources[i] = v })

\* Value v is the pending prepared value of a slot.
Pending(v) ==
    \E slot \in { effect_param, effect_param_previous } :
        /\ slot # None
        /\ slot[1].prepared_value # None
        /\ slot[1].prepared_value[1].id = v

\* C1: with a previous slot, after two consecutive frames that each received
\* a new FFT result, the previous slot holds exactly the resource the current
\* slot held after the first of the two frames.
C1_DoubleBufferHandoff ==
    ( /\ op.name = "stage_value"
      /\ effect_param_previous # None
      /\ hist.frames = << "new", "new" >> )
    => /\ hist.current[1] # None
       /\ Staged(effect_param_previous) = hist.current[1]

C1_Witness ==
    /\ op.name = "stage_value"
    /\ effect_param_previous # None
    /\ hist.frames = << "new", "new" >>
    /\ Staged(effect_param_previous) # None
    /\ Staged(effect_param) # None

\* C2: in a frame whose poll returned nothing, stage_value leaves the texture
\* staged in the current slot in place, assign_value binds it again, and what
\* was staged in the previous slot is still staged.
C2_IdleFrameKeepsCurrent ==
    ( /\ effect_param # None
      /\ op.name \in { "stage_value", "assign_value" }
      /\ hist.frames[2] = "none"
      /\ hist.current[1] # None )
    => /\ Staged(effect_param) = hist.current[1]
       /\ op.name = "assign_value" =>
            \E i \in 1..Len(op.writes) :
                op.writes[i] = [param |-> "param", resource |-> hist.current[1][1].id]
       /\ hist.previous[1] # None => Staged(effect_param_previous) = hist.previous[1]

\* C3: every staged resource and every parameter handle that is released was
\* enabled when it was released.
C3_ReleasedOnlyEnabled ==
    \A i \in 1..Len(ledger.drops) : ledger.drops[i].enabled

C3_Witness ==
    /\ \E i \in 1..Len(ledger.drops) : ledger.drops[i].kind = "resource"
    /\ \E i \in 1..Len(ledger.drops) : ledger.drops[i].kind = "param"

\* C4: assign_value on an EffectParam with an empty staged slot raises the
\* fatal error and leaves the EffectParam, its parameter included, as it was.
C4_AssignBeforeStagingFails ==
    [][ ( /\ op'.name = "assign_value"
          /\ op'.target = "current"
          /\ Staged(effect_param) = None )
        => /\ panicked'
           /\ op'.writes = <<>>
           /\ effect_param' = effect_param ]_vars

C4_Witness ==
    /\ panicked
    /\ op.name = "assign_value"
    /\ since.current = "new"
    /\ effect_param[1].prepared_value = Some(PreparedValue(1, TextureDescriptorDefault))
    /\ effect_param[1].staged_value = None
    /\ effect_param[1].param.value = None

\* C5: a stage_value that follows a stage_value with no prepare_value in
\* between changes nothing: no slot, no resource created, none released.
C5_StagingIdempotent ==
    [][ ( /\ op'.name = "stage_value"
          /\ op'.target = "current"
          /\ since.current = "staged" )
        => /\ effect_param' = effect_param
           /\ effect_param_previous' = effect_param_previous
           /\ ledger' = ledger ]_vars

C5_Witness ==
    /\ op.name = "stage_value"
    /\ op.target = "current"
    /\ op.again
    /\ Staged(effect_param) # None

\* C6: an assignment on a slot that has a staged resource succeeds, binds
\* that resource, and leaves the staged and the prepared value as they were.
C6_StagingSticky ==
    [][ ( /\ op'.name \in AssignNames
          /\ op'.target = "current"
          /\ Staged(effect_param) # None )
        => /\ ~panicked'
           /\ op'.writes = WriteOf(effect_param)
           /\ effect_param'[1].param.value = Some(Staged(effect_param)[1].id)
           /\ effect_param'[1].staged_value = effect_param[1].staged_value
           /\ effect_param'[1].prepared_value = effect_param[1].prepared_value ]_vars

C6_Witness ==
    /\ op.name = "assign_value_if_staged"
    /\ op.again
    /\ since.current = "staged"
    /\ Staged(effect_param) # None
    /\ effect_param[1].param.value = Some(Staged(effect_param)[1].id)

\* C7: a prepare_values whose poll returns nothing leaves both slots, their
\* prepared and staged values, and the resources as they were.
C7_EmptyPollChangesNothing ==
    [][ ( /\ op'.name = "prepare_values"
          /\ ~op'.polled )
        => /\ effect_param' = effect_param
           /\ effect_param_previous' = effect_param_previous
           /\ ledger' = ledger ]_vars

C7_Witness ==
    /\ op.name = "prepare_values"
    /\ ~op.polled
    /\ Staged(effect_param) # None
    /\ Staged(effect_param_previous) # None

\* C8: the adapter's assign_value never raises the fatal error; it writes the
\* previous slot's resource, then the current slot's, each only if staged.
C8_AdapterAssignNeverFails ==
    /\ ~panicked
    /\ op.name = "assign_value" =>
         op.writes = WriteOf(effect_param_previous) \o WriteOf(effect_param)

C8_Witness ==
    /\ op.name = "assign_value"
    /\ effect_param_previous # None
    /\ Staged(effect_param_previous) = None
    /\ Staged(effect_param) = None
    /\ ~panicked

\* C9: prepare_value sets the pending value and nothing else: the staged
\* resource and the parameter stay, no resource is created or released, and
\* an assignment made while the value is pending binds the staged resource.
C9_PrepareHasNoSideEffects ==
    [][ /\ ( op'.name = "prepare_value" /\ op'.target = "current" )
           => /\ effect_param'[1].prepared_value # None
              /\ effect_param'[1].staged_value = effect_param[1].staged_value
              /\ effect_param'[1].param = effect_param[1].param
              /\ effect_param_previous' = effect_param_previous
              /\ ledger'.resources = ledger.resources
              /\ ledger'.drops = ledger.drops
        /\ ( /\ op'.name \in AssignNames
             /\ op'.target = "current"
             /\ since.current = "prepared"
             /\ Staged(effect_param) # None )
           => effect_param'[1].param.value = Some(Staged(effect_param)[1].id) ]_vars

C9_Witness ==
    /\ op.name = "prepare_value"
    /\ since.current = "prepared"
    /\ Staged(effect_param) # None
    /\ effect_param[1].prepared_value # None

\* C10 as stated: every prepared value that is no longer pending has been
\* converted exactly once.
C10_ConsumedExactlyOnce ==
    \A v \in 1..ledger.values : Pending(v) \/ Conversions(v) = 1

\* C10 as amended: every prepared value is converted at most once; it is
\* pending, or converted once, or was dropped unconverted (overwritten by a
\* later prepare_value, or pending at enable_and_drop), and never two of
\* these; stage_value leaves no value pending.
C10_ConsumedAtMostOnce ==
    /\ \A v \in 1..ledger.values :
        /\ Conversions(v) <= 1
        /\ Pending(v) \/ Conversions(v) = 1 \/ v \in ledger.discarded
        /\ ~(Pending(v) /\ Conversions(v) = 1)
        /\ ~(Pending(v) /\ v \in ledger.discarded)
        /\ ~(Conversions(v) = 1 /\ v \in ledger.discarded)
    /\ ( op.name = "stage_value" /\ effect_param # None )
         => effect_param[1].prepared_value = None

C10_Witness ==
    /\ \E v \in 1..ledger.values : v \in ledger.discarded /\ Conversions(v) = 0
    /\ \E v \in 1..ledger.values : Conversions(v) = 1
    /\ effect_param # None

\* The steps of the EffectParam interface on the current slot.
StageStep == op'.name = "stage_value" /\ op'.target = "current"

AssignAfterStageStep ==
    /\ op.name = "stage_value" /\ op.target = "current"
    /\ op'.name = "assign_value" /\ op'.target = "current"

\* C11 as stated: construction leaves the default value pending, the first
\* stage_value after construction produces a staged resource, and an
\* assign_value that follows a stage_value never raises the contract error.
C11_StageThenAssignNeverFails ==
    [][ /\ ( StageStep /\ since.current = "new" )
           => /\ effect_param[1].prepared_value # None
              /\ effect_param[1].prepared_value[1].data = TextureDescriptorDefault
              /\ Staged(effect_param') # None
        /\ AssignAfterStageStep => ~panicked' ]_vars

\* C11 as amended: construction leaves the default value pending, the first
\* stage_value after construction produces a staged resource, and as long as
\* take_staged_value has not been called on the EffectParam every stage_value
\* leaves a resource staged and an assign_value that follows it raises no
\* contract error and binds that resource.
C11_StageThenAssignUnlessTaken ==
    [][ /\ ( StageStep /\ since.current = "new" )
           => /\ effect_param[1].prepared_value # None
              /\ effect_param[1].prepared_value[1].data = TextureDescriptorDefault
        /\ ( StageStep /\ ~since.took ) => Staged(effect_param') # None
        /\ ( AssignAfterStageStep /\ ~since.took )
           => /\ ~panicked'
              /\ effect_param'[1].param.value = Some(Staged(effect_param)[1].id) ]_vars

C11_Witness ==
    /\ op.name = "assign_value" /\ op.target = "current"
    /\ ~since.took
    /\ ~panicked
    /\ since.current = "staged"
    /\ Staged(effect_param) # None
    /\ Staged(effect_param)[1].from = 1
    /\ effect_param[1].param.value = Some(Staged(effect_param)[1].id)

\* C18: the latest value wins: when prepare_value was called since the last
\* stage_value, the next stage_value converts the value of the most recent
\* call and no other, and leaves nothing pending; a value overwritten while
\* pending is never converted; a slot has at most one value pending.
C18_LatestValueWins ==
    [][ /\ ( /\ op'.name = "stage_value"
             /\ since.current = "prepared" )
           => /\ Staged(effect_param') # None
              /\ Staged(effect_param')[1].from = ledger.values
              /\ ledger'.resources = Append(ledger.resources, ledger.values)
              /\ effect_param'[1].prepared_value = None
              /\ ledger'.discarded = ledger.discarded
        /\ \A v \in ledger.discarded : Conversions(v) = 0
        /\ \A slot \in { effect_param, effect_param_previous } :
              Cardinality({ v \in 1..ledger.values :
                              /\ slot # None
                              /\ slot[1].prepared_value # None
                              /\ slot[1].prepared_value[1].id = v }) <= 1 ]_vars

C18_Witness ==
    /\ op.name = "stage_value"
    /\ 3 \in ledger.discarded
    /\ Conversions(3) = 0
    /\ Staged(effect_param) # None
    /\ Staged(effect_param)[1].from = 4
    /\ effect_param[1].prepared_value = None

\* C16: linspace(a, b, n) returns n elements: none for n = 0, only a for
\* n = 1, and for n >= 2 the first element is a and the last element is b.
C16_LinspaceEndpoints ==
    ( call.fn = "linspace" /\ call.done ) =>
        /\ Len(call.result) = call.args.num
        /\ call.args.num = 0 => call.result = << >>
        /\ call.args.num = 1 => call.result = << call.args.start >>
        /\ call.args.num >= 2 => /\ call.result[1] = call.args.start
                                 /\ call.result[call.args.num] = call.args.stop

F32LessEq(x, y) == ~F32Less(y, x)

\* C17: normalize returns as many values as it is given, none for the empty
\* input; when the largest and the smallest input are less than 1e-6 apart
\* every output is 0.5; otherwise every output lies in [0, 1], the smallest
\* input is mapped to 0 and the largest to 1; [1,2,3] gives [0, 0.5, 1] and
\* [5,5,5] gives [0.5, 0.5, 0.5].
C17_NormalizeMinMax ==
    ( call.fn = "normalize" /\ call.done ) =>
        LET in == call.args
            out == call.result
            I == 1..Len(in)
            one == F32FromNat(1)
            zero == F32FromNat(0)
        IN  /\ Len(out) = Len(in)
            /\ in = << >> => out = << >>
            /\ \A lo \in I, hi \in I :
                 ( \A i \in I : F32LessEq(in[lo], in[i]) /\ F32LessEq(in[i], in[hi]) )
                 => IF F32Less(F32Sub(in[hi], in[lo]), F32_1E_6)
                    THEN \A i \in I : out[i] = F32_HALF
                    ELSE /\ \A i \in I : F32LessEq(zero, out[i]) /\ F32LessEq(out[i], one)
                         /\ out[lo] = zero
                         /\ out[hi] = one
            /\ in = << F32FromNat(1), F32FromNat(2), F32FromNat(3) >>
                 => out = << zero, F32_HALF, one >>
            /\ in = << F32FromNat(5), F32FromNat(5), F32FromNat(5) >>
                 => out = << F32_HALF, F32_HALF, F32_HALF >>

C17_Witness ==
    /\ call.fn = "normalize"
    /\ call.done
    /\ call.args = << F32FromNat(1), F32FromNat(2), F32FromNat(3) >>
    /\ call.result = << F32FromNat(0), F32_HALF, F32FromNat(1) >>

\* The bins of f_min and f_max.
BinOfFMin == TestBin[1]

BinOfFMax == TestBin[Len(TestBin)]

\* C15 as stated: for the test's filter bank, the impulse at any bin from the
\* bin of f_min to the bin of f_max gives a strictly positive sum of the Mel
\* outputs.
C15_ImpulseResponsePositive ==
    ( call.fn = "apply" /\ call.done /\ BinOfFMin <= call.args /\ call.args <= BinOfFMax )
    => F32Less(F32FromNat(0), call.sum)

\* C15 as amended: the impulse at any bin strictly between the bin of f_min
\* and the bin of f_max gives a strictly positive sum of the Mel outputs; at
\* the bin of f_min and at the bin of f_max every filter has weight zero and
\* the sum is zero.
C15_ImpulseResponseInside ==
    ( call.fn = "apply" /\ call.done )
    => /\ Len(call.result) = TEST_N_MELS
       /\ ( BinOfFMin < call.args /\ call.args < BinOfFMax )
            => /\ F32Less(F32FromNat(0), call.sum)
               /\ \E i \in 1..TEST_N_MELS :
                    F32Less(F32FromNat(0), TestFilterBank.filters[i][call.args + 1])
       /\ call.args \in { BinOfFMin, BinOfFMax }
            => /\ call.sum = F32FromNat(0)
               /\ \A i \in 1..TEST_N_MELS :
                    TestFilterBank.filters[i][call.args + 1] = F32FromNat(0)

C15_Witness ==
    /\ call.fn = "apply"
    /\ call.done
    /\ call.args = 10
    /\ F32Less(F32FromNat(0), call.sum)

\* C12: when loading a property fails in the new of a scalar adapter or of
\* the FFT adapter (any of its eight properties), new returns the error and
\* no adapter: no EffectParam has been created, no parameter handle has been
\* disabled or stored, and nothing has been requested from the worker.
C12_ConstructionFailsAsAWhole ==
    ( call.fn = "new" /\ ~call.ok )
    => /\ call.error # ""
       /\ effect_param = None
       /\ effect_param_previous = None
       /\ audio_fft = None
       /\ call.requests = << >>
       /\ ledger.values = 0
       /\ ledger.resources = << >>
       /\ ledger.discarded = {}
       /\ \A i \in 1..Len(ledger.drops) :
            ledger.drops[i].kind = "param" /\ ledger.drops[i].enabled

C12_Witness ==
    /\ call.fn = "new"
    /\ call.kind = "fft"
    /\ ~call.ok
    /\ call.error = "f_max"
    /\ Len(ledger.drops) = 2
    /\ effect_param = None

\* C13: after new and after every reload_settings of the FFT adapter the
\* handle it polls is the worker's handle for the descriptor of the loaded
\* property values: mix and channel index are the property minus 1, the
\* dampening factors are the percentage over 100; with the properties in
\* their declared ranges the indices do not fall below 0 and the factors lie
\* in [0, 1]; the handle is present whenever prepare_values can run.
C13_HandleFollowsProperties ==
    ( /\ Built({ "fft" })
      /\ properties.mix \in 1..MAX_AUDIO_MIXES
      /\ properties.channel \in 1..2
      /\ properties.dampening_factor_attack \in 0..100
      /\ properties.dampening_factor_release \in 0..100 )
    => /\ audio_fft # None
       /\ LET d == audio_fft[1].descriptor
          IN  /\ audio_fft[1] = GlobalRequestAudioFFT(d)
              /\ d.mix = properties.mix - 1
              /\ d.mix \in 0..(MAX_AUDIO_MIXES - 1)
              /\ d.channel = properties.channel - 1
              /\ d.channel \in 0..1
              /\ d.dampening_factor_attack.num = properties.dampening_factor_attack
              /\ d.dampening_factor_release.num = properties.dampening_factor_release
              /\ \A f \in { d.dampening_factor_attack, d.dampening_factor_release } :
                   f.den = 100 /\ 0 <= f.num /\ f.num <= f.den
              /\ d.mel_enabled = properties.mel_enabled
              /\ d.n_mels = properties.n_mels
              /\ d.f_min = properties.f_min
              /\ d.f_max = properties.f_max
              /\ d.window = "Hanning"
              /\ op.name = "new" => call.requests = << d >>

C13_Witness ==
    /\ Built({ "fft" })
    /\ op.name = "reload_settings"
    /\ properties.mix = MAX_AUDIO_MIXES
    /\ audio_fft # None
    /\ audio_fft[1].descriptor.mix = MAX_AUDIO_MIXES - 1

\* The spectrum a polled result contributes to the texture.
SpectrumUsed(fft_result) ==
    IF properties.mel_enabled /\ fft_result.mel_spectrum # None
    THEN fft_result.mel_spectrum[1]
    ELSE fft_result.frequency_spectrum

\* C14: when prepare_values of the FFT adapter receives a result, the
\* prepared texture is n_mels wide if the Mel property is on and the result
\* carries Mel data, and as wide as the linear spectrum is long otherwise;
\* it is 1 high in both cases.
C14_TextureWidth ==
    ( Built({ "fft" }) /\ op.name = "prepare_values" /\ op.polled )
    => LET fft_result == call.polled[1]
           texture == effect_param[1].prepared_value[1].data
       IN  /\ texture.dimensions[1] =
                IF properties.mel_enabled /\ fft_result.mel_spectrum # None
                THEN properties.n_mels
                ELSE Len(fft_result.frequency_spectrum)
           /\ texture.dimensions[2] = 1

C14_Witness ==
    /\ Built({ "fft" })
    /\ op.name = "prepare_values"
    /\ op.polled
    /\ properties.mel_enabled
    /\ properties.n_mels = 3
    /\ call.polled[1].mel_spectrum # None
    /\ Len(call.polled[1].frequency_spectrum) = MaxSpectrumLen
    /\ effect_param[1].prepared_value[1].data.dimensions = << 3, 1 >>

\* A descriptor of a spectrum of len samples.
DescriptorOfLen(d, len) ==
    /\ d.dimensions = << len, 1 >>
    /\ d.color_format = "R32F"
    /\ d.flags = 0
    /\ Len(d.levels) = 1
    /\ Len(d.levels[1]) = 4 * len

\* C20: the default descriptor is 1x1 RGBA with one level of 4 zero bytes;
\* every descriptor pending in the FFT adapter is that default or a
\* descriptor of a spectrum, and the one prepare_values builds from a result
\* has dimensions [len, 1], format R32F, flags 0 and exactly one level of
\* 4 * len bytes, len being the length of the spectrum used, 0 included.
C20_DescriptorInvariant ==
    /\ TextureDescriptorDefault.dimensions = << 1, 1 >>
    /\ TextureDescriptorDefault.color_format = "RGBA"
    /\ TextureDescriptorDefault.levels = << << 0, 0, 0, 0 >> >>
    /\ Built({ "fft" }) =>
        /\ \A slot \in { effect_param, effect_param_previous } :
             ( slot # None /\ slot[1].prepared_value # None )
             => LET d == slot[1].prepared_value[1].data
                IN  \/ d = TextureDescriptorDefault
                    \/ DescriptorOfLen(d, d.dimensions[1])
        /\ ( op.name = "prepare_values" /\ op.polled )
             => DescriptorOfLen(effect_param[1].prepared_value[1].data,
                                Len(SpectrumUsed(call.polled[1])))

C20_Witness ==
    /\ Built({ "fft" })
    /\ op.name = "prepare_values"
    /\ op.polled
    /\ Len(SpectrumUsed(call.polled[1])) = 0
    /\ effect_param[1].prepared_value[1].data.dimensions = << 0, 1 >>
    /\ effect_param[1].prepared_value[1].data.levels = << << >> >>

\* The value a property holds, taken exactly.
PropertyValue(property) ==
    CASE property.kind = "float" -> Canonical(property.value.m, property.value.e)
      [] property.kind = "color" -> property.value.rgba
      [] OTHER                   -> property.value

ScalarPending == effect_param[1].prepared_value

\* C19 as stated: a scalar adapter's construction and reload_settings leave
\* the property's current value pending, prepare_values changes nothing, and
\* from a stage_value until the next reload_settings the staged value equals
\* the property's current value.
C19_StagedEqualsProperty ==
    [][ /\ ( Built(ScalarKinds)' /\ op'.name \in { "new", "reload_settings" } )
           => ScalarPending' # None /\ ScalarPending'[1].data = PropertyValue(properties')
        /\ ( Built(ScalarKinds)' /\ since'.current = "staged" )
           => /\ Staged(effect_param') # None
              /\ Staged(effect_param')[1].data = PropertyValue(properties')
        /\ ( Built(ScalarKinds) /\ op'.name = "prepare_values" )
           => UNCHANGED << effect_param, properties, ledger >> ]_vars

\* C19 as amended: the value left pending, and staged from a stage_value
\* until the next reload_settings, is the property's current value converted
\* to the parameter's type: a bool, an int and the components of a color as
\* they are, a float property's f64 value rounded to f32.
C19_StagedIsConvertedProperty ==
    [][ /\ ( Built(ScalarKinds)' /\ op'.name \in { "new", "reload_settings" } )
           => /\ ScalarPending' # None
              /\ ScalarPending'[1].data = ToShaderValue(properties'.kind, properties'.value)
        /\ ( Built(ScalarKinds)' /\ since'.current = "staged" )
           => /\ Staged(effect_param') # None
              /\ Staged(effect_param')[1].data =
                   ToShaderValue(properties'.kind, properties'.value)
              /\ properties'.kind # "float"
                   => Staged(effect_param')[1].data = PropertyValue(properties')
        /\ ( Built(ScalarKinds) /\ op'.name = "prepare_values" )
           => UNCHANGED << effect_param, properties, ledger >> ]_vars

C19_Witness ==
    /\ Built(ScalarKinds)
    /\ call.kind = "float"
    /\ op.name = "stage_value"
    /\ since.current = "staged"
    /\ ledger.values >= 3
    /\ properties.value = [ m |-> 1073741825, e |-> -30 ]
    /\ Staged(effect_param) # None
    /\ Staged(effect_param)[1].data = F32FromNat(1)

\* A call of stage_value_custom on the current slot with the resource the
\* caller holds.
CustomStep == taken # None /\ op'.name = "stage_value_custom" /\ op'.target = "current"

\* C21: stage_value_custom stores the given resource as the staged value as
\* it is, converting nothing; the resource it replaces, if any, is enabled
\* and then released, and nothing else is released; the pending prepared
\* value and the destination parameter stay as they were.
C21_StageValueCustom ==
    [][ CustomStep =>
          /\ Staged(effect_param') = taken
          /\ taken' = None
          /\ ledger'.resources = ledger.resources
          /\ ledger'.values = ledger.values
          /\ ledger'.discarded = ledger.discarded
          /\ effect_param'[1].prepared_value = effect_param[1].prepared_value
          /\ effect_param'[1].param = effect_param[1].param
          /\ ledger'.drops =
                IF Staged(effect_param) = None THEN ledger.drops
                ELSE Append(ledger.drops,
                            [ kind |-> "resource", param |-> "",
                              id |-> Staged(effect_param)[1].id, enabled |-> TRUE ]) ]_vars

C21_Witness ==
    /\ op.name = "stage_value_custom" /\ op.target = "current"
    /\ taken = None
    /\ Staged(effect_param) # None
    /\ effect_param[1].prepared_value # None
    /\ Len(ledger.drops) > 0
    /\ ledger.drops[Len(ledger.drops)].kind = "resource"
    /\ ledger.drops[Len(ledger.drops)].enabled
    /\ ledger.drops[Len(ledger.drops)].id > Staged(effect_param)[1].id

\* What the teardown of one EffectParam releases, in order: the destination
\* parameter handle, then the staged resource if there is one, both enabled.
ReleasesOf(slot) ==
    IF slot = None THEN <<>>
    ELSE << [ kind |-> "param", param |-> slot[1].param.id, id |-> 0, enabled |-> TRUE ] >>
         \o ( IF Staged(slot) = None THEN <<>>
              ELSE << [ kind |-> "resource", param |-> "", id |-> Staged(slot)[1].id,
                        enabled |-> TRUE ] >> )

\* The number of releases of resource r, and of the handle of parameter p.
ReleasesOfResource(L, r) ==
    Cardinality({ i \in 1..Len(L.drops) : L.drops[i].kind = "resource" /\ L.drops[i].id = r })

ReleasesOfParam(L, p) ==
    Cardinality({ i \in 1..Len(L.drops) : L.drops[i].kind = "param" /\ L.drops[i].param = p })

\* C22: enable_and_drop of an adapter, from whatever state it is called in,
\* enables and releases the parameter handle and the staged resource, if
\* any, of the previous slot and then those of the current slot, and nothing
\* else; after it every resource that was ever created has been released
\* exactly once, as has every parameter handle, and the adapter holds no
\* slot any more.  At no time has a resource been released twice.
C22_TeardownReleasesOnce ==
    [][ /\ \A r \in 1..Len(ledger'.resources) : ReleasesOfResource(ledger', r) <= 1
        /\ ( effect_param # None /\ op'.name = "enable_and_drop" )
           => /\ ledger'.drops = ledger.drops \o ReleasesOf(effect_param_previous)
                                              \o ReleasesOf(effect_param)
              /\ effect_param' = None
              /\ effect_param_previous' = None
              /\ ledger'.resources = ledger.resources
              /\ \A r \in 1..Len(ledger'.resources) : ReleasesOfResource(ledger', r) = 1
              /\ ReleasesOfParam(ledger', effect_param[1].param.id) = 1
              /\ effect_param_previous # None
                 => ReleasesOfParam(ledger', effect_param_previous[1].param.id) = 1 ]_vars

\* The FFT adapter was torn down with a texture in each slot, after an
\* earlier texture had been replaced.
C22_Witness ==
    /\ op.name = "enable_and_drop"
    /\ call.kind = "fft"
    /\ effect_param = None
    /\ Len(ledger.resources) >= 3
    /\ Len(ledger.drops) >= 5
    /\ LET n == Len(ledger.drops)
       IN  /\ ledger.drops[n - 3].kind = "param" /\ ledger.drops[n - 3].param = "param_previous"
           /\ ledger.drops[n - 2].kind = "resource"
           /\ ledger.drops[n - 1].kind = "param" /\ ledger.drops[n - 1].param = "param"
           /\ ledger.drops[n].kind = "resource"
           /\ ledger.drops[n - 2].id < ledger.drops[n].id

\* A call of MelFilterBank::new has returned a filter bank.
MelBankBuilt == call.fn = "MelFilterBank::new" /\ call.done /\ ~call.result.panic

\* C23: the bank has n_mels rows, each of length fft_size / 2 + 1; the weight
\* of row i at bin j is (j - left) / (center - left) for left <= j < center,
\* (right - j) / (right - center) for center <= j < right and 0 elsewhere,
\* with left, center, right the bin edges i, i + 1 and i + 2; every weight
\* is from 0 to 1, the weight at center is 1 when right > center, and an
\* empty ramp (center = left, or right = center) leaves its part at 0.
C23_TriangularRows ==
    MelBankBuilt =>
        LET n_fft_bins == call.args.fft_size \div 2 + 1
            filters == call.result.filters
        IN  /\ Len(filters) = call.args.n_mels
            /\ \A i \in 1..Len(filters) :
                LET left == call.bin[i]
                    center == call.bin[i + 1]
                    right == call.bin[i + 2]
                IN  /\ Len(filters[i]) = n_fft_bins
                    /\ \A j \in 0..(n_fft_bins - 1) :
                        LET weight == filters[i][j + 1]
                        IN  /\ ( left <= j /\ j < center ) =>
                                 weight = F32Div(F32FromNat(j - left), F32FromNat(center - left))
                            /\ ( center <= j /\ j < right ) =>
                                 weight = F32Div(F32FromNat(right - j), F32FromNat(right - center))
                            /\ ~( left <= j /\ j < right ) => weight = F32FromNat(0)
                            /\ ~F32Less(F32FromNat(1), weight)
                            /\ ( j = center /\ right > center ) => weight = F32FromNat(1)
                            /\ ( center = left /\ right = center ) => weight = F32FromNat(0)

\* A bank with a row that rises over two bins and falls over two bins.
C23_Witness ==
    /\ MelBankBuilt
    /\ \E i \in 1..Len(call.result.filters) :
        /\ call.bin[i] + 2 = call.bin[i + 1]
        /\ call.bin[i + 1] + 2 = call.bin[i + 2]
        /\ call.result.filters[i][call.bin[i] + 2] = F32_HALF
        /\ call.result.filters[i][call.bin[i + 1] + 1] = F32FromNat(1)
        /\ call.result.filters[i][call.bin[i + 1] + 2] = F32_HALF

\* The frequency range of the call fits the spectrum: 0 <= f_min <= f_max <=
\* sample_rate / 2.
RangeFitsSpectrum ==
    /\ F32LessEq(call.args.f_min, call.args.f_max)
    /\ F32LessEq(call.args.f_max, F32Div(call.args.sample_rate, F32FromNat(2)))

\* C28 as stated: when 0 <= f_min <= f_max <= sample_rate / 2, every boundary
\* bin is at most fft_size / 2 + 1, no index outside a filter row is written
\* and MelFilterBank::new completes; when f_min > f_max, every filter row is
\* all zero.
C28_WritesInsideRows ==
    ( call.fn = "MelFilterBank::new" /\ call.done ) =>
        /\ RangeFitsSpectrum =>
             /\ \A k \in 1..Len(call.bin) : call.bin[k] <= call.args.fft_size \div 2 + 1
             /\ ~call.result.panic
        /\ F32Less(call.args.f_max, call.args.f_min) =>
             /\ ~call.result.panic
             /\ \A i \in 1..Len(call.result.filters) :
                  \A k \in 1..Len(call.result.filters[i]) :
                      call.result.filters[i][k] = F32FromNat(0)

\* C24: in a scalar adapter the staged slot, once filled, is never empty
\* again under reload_settings, prepare_values, stage_value and assign_value;
\* the first stage_value fills it, and assign_value raises the contract
\* error only when no stage_value has been called yet.
C24_ScalarStagedStays ==
    [][ ( Built(ScalarKinds) /\ effect_param' # None ) =>
          /\ Staged(effect_param) # None => Staged(effect_param') # None
          /\ op'.name = "stage_value" => Staged(effect_param') # None
          /\ panicked' =>
               /\ op'.name = "assign_value"
               /\ Staged(effect_param) = None
               /\ Len(ledger.resources) = 0
               /\ since.current # "staged"
          /\ ( op'.name = "assign_value" /\ Len(ledger.resources) > 0 ) => ~panicked' ]_vars

\* A scalar adapter that was staged, reloaded, staged again and assigned.
C24_Witness ==
    /\ call.fn = "new" /\ call.kind \in ScalarKinds
    /\ op.name = "assign_value"
    /\ ~panicked
    /\ Len(ledger.resources) >= 2
    /\ Staged(effect_param) # None
    /\ Staged(effect_param)[1].id = Len(ledger.resources)
    /\ effect_param[1].param.value = Some(Staged(effect_param)[1].id)

\* The slots of the adapter that hold resource r staged.
HoldersOf(r) ==
    { t \in { "current", "previous" } :
        LET slot == IF t = "current" THEN effect_param ELSE effect_param_previous
        IN  Staged(slot) # None /\ Staged(slot)[1].id = r }

\* C25: in every state of the FFT adapter every texture that staging has
\* created is either staged in exactly one slot and not released, or staged
\* in no slot and released exactly once; the two slots never hold the same
\* texture, and no more textures are held than there are slots.
C25_OwnedOnce ==
    /\ \A r \in 1..Len(ledger.resources) :
         Cardinality(HoldersOf(r)) + ReleasesOfResource(ledger, r) = 1
    /\ ( Staged(effect_param) # None /\ Staged(effect_param_previous) # None )
       => Staged(effect_param)[1].id # Staged(effect_param_previous)[1].id
    /\ \A slot \in { effect_param, effect_param_previous } :
         Staged(slot) # None => Staged(slot)[1].id \in 1..Len(ledger.resources)
    /\ Cardinality({ r \in 1..Len(ledger.resources) : ReleasesOfResource(ledger, r) = 0 })
         <= Cardinality({ slot \in { effect_param, effect_param_previous } : slot # None })

\* Both slots hold a texture after two handoffs: one texture has been
\* released, the previous slot holds the one staged before the current one.
C25_Witness ==
    /\ op.name = "stage_value"
    /\ Len(ledger.resources) = 3
    /\ HoldersOf(1) = {}
    /\ HoldersOf(2) = { "previous" }
    /\ HoldersOf(3) = { "current" }
    /\ ReleasesOfResource(ledger, 1) = 1

\* C26: while the FFT adapter has a previous slot, the default value that
\* EffectParam::new prepared for it stays pending and is never converted into
\* a resource, and whenever the resource staged in the previous slot changes,
\* the new one is the resource that was staged in the current slot before.
C26_PreviousFilledByHandoff ==
    [][ effect_param_previous # None =>
          LET pending == effect_param_previous[1].prepared_value
          IN  /\ pending # None
              /\ pending[1].data = TextureDescriptorDefault
              /\ Conversions(pending[1].id) = 0
              /\ \A i \in 1..Len(ledger'.resources) : ledger'.resources[i] # pending[1].id
              /\ effect_param_previous' # None =>
                   /\ effect_param_previous'[1].prepared_value = pending
                   /\ Staged(effect_param_previous') # Staged(effect_param_previous) =>
                        /\ Staged(effect_param) # None
                        /\ Staged(effect_param_previous') = Staged(effect_param) ]_vars

\* The previous slot holds the second texture the current slot had, and its
\* own default value is still pending.
C26_Witness ==
    /\ effect_param # None /\ effect_param_previous # None
    /\ Staged(effect_param_previous) # None
    /\ Staged(effect_param_previous)[1].id = 2
    /\ Staged(effect_param_previous)[1].from # effect_param_previous[1].prepared_value[1].id
    /\ effect_param_previous[1].prepared_value[1].data = TextureDescriptorDefault
    /\ Staged(effect_param) # None
    /\ hist.previous[1] # None /\ hist.previous[1][1].id = 1

\* C27: with clicks and calls of check_and_reset in any order, a
\* check_and_reset returns true exactly when at least one click has happened
\* since the check before it (or since creation) and leaves the flag false, so
\* that any number of clicks between two checks gives one true and no click
\* is reported by two checks; a click leaves the flag set until the next
\* check.
C27_NoRequestLostOrInvented ==
    [][ /\ call'.fn = "check_and_reset" /\ call'.checks = call.checks + 1
           => /\ call'.result = ( call.pending > 0 )
              /\ ~reload_requested'.value
        /\ call'.fn = "click" /\ call'.clicks = call.clicks + 1
           => reload_requested'.value
        /\ reload_requested'.value = ( call'.pending > 0 )
        /\ call'.trues <= call'.clicks
        /\ call'.trues <= call'.checks ]_vars

\* Two clicks, then a check that returned true, then a check that returned
\* false.
C27_Witness ==
    /\ call.fn = "check_and_reset"
    /\ ~call.result
    /\ call.clicks = 2
    /\ call.checks = 2
    /\ call.trues = 1
    /\ call.pending = 0

====
